---- MODULE Spec2Model ----
(***************************************************************************)
(* A model of the event-driven trading simulation: LocalMessageBus         *)
(* (core/message_bus.py), the TraderAgent and RiskManagerAgent handlers,   *)
(* MarketEnvironment and the TradingSimulation main loop (src/main.py).    *)
(*                                                                         *)
(* Money is counted in cents, so that the commission (0.1 %) and the limit *)
(* prices (+-1 %) of the prices used here are exact integers.              *)
(***************************************************************************)
EXTENDS Integers, Sequences, FiniteSets, TLC

VARIABLES
    channels,     \* LocalMessageBus.channels: topic -> list of callbacks
    queue,        \* LocalMessageBus.queue (asyncio.Queue, unbounded)
    running,      \* LocalMessageBus._running
    task,         \* where the _process_messages task stands
    current,      \* the message dequeued and being delivered
    todo,         \* the callbacks of `current` that gather still has to finish
    closePc,      \* where a call of LocalMessageBus.close() stands
    accepted,     \* history: the messages publish() accepted, in order
    invoked,      \* history: per registration, its invocations in order
    closedAt,     \* history: Len(accepted) when close() was called
    analyst,      \* AnalystAgent objects: agent id -> fields
    trader,       \* TraderAgent objects: agent id -> fields
    rm,           \* RiskManagerAgent objects: agent id -> fields
    market,       \* the MarketEnvironment object
    mainPc,       \* where TradingSimulation.run stands
    hist,         \* history of the order pipeline (statuses written, ...)
    probe,        \* the last call of _validate_order made on its own
    redis,        \* a RedisMessageBus with its pubsub connection
    lifecycle,    \* a BaseAgent's _running and _task, and the calls on it
    portfolio     \* a Portfolio object and the outcome of its last call

busVars == <<channels, queue, running, task, current, todo, closePc>>
busHist == <<accepted, invoked, closedAt>>
otherVars == <<redis, lifecycle, portfolio>>
simVars == <<analyst, trader, rm, market, mainPc, hist, probe, otherVars>>

vars == <<busVars, busHist, simVars>>

-----------------------------------------------------------------------------
(* Bounds of the bus model *)

MaxMessages == 2
MaxSubscriptions == 2

BusTopics == {"T1", "T2"}
\* The callbacks of the bus model, named after what their code does when it
\* is invoked: return, raise, or publish a message on T1 and return.
BusCallbacks == {"returns", "raises", "publishes"}

-----------------------------------------------------------------------------
(* Helpers on sequences *)

Range(s) == {s[i] : i \in DOMAIN s}

RemoveAt(s, i) == [j \in 1..(Len(s) - 1) |-> IF j < i THEN s[j] ELSE s[j + 1]]

Indices(n) == [i \in 1..n |-> i]

-----------------------------------------------------------------------------
(* LocalMessageBus *)

NoMessage == [channel |-> "", data |-> [type |-> "none"], seq |-> 0]

\* message_with_meta of publish(); seq stands for the message's identity
\* (the place of its publish call among the accepted ones; 0: not tracked).
Envelope(channel, data, n) == [channel |-> channel, data |-> data, seq |-> n]

Subscribers(chs, channel) ==
    IF channel \in DOMAIN chs THEN chs[channel] ELSE <<>>

\* subscribe(): setdefault + append
SubscribeTo(chs, channel, callback) ==
    [c \in DOMAIN chs \cup {channel} |->
        IF c = channel THEN Append(Subscribers(chs, channel), callback)
        ELSE chs[c]]

\* start(): guarded by _running; creates the delivery task.  A start while
\* an earlier delivery task is still alive is left out of the model.
BusStart ==
    /\ ~running
    /\ task \in {"none", "done"}
    /\ running' = TRUE
    /\ task' = "created"
    /\ closePc' = "idle"
    /\ UNCHANGED <<channels, queue, current, todo, busHist, simVars>>

\* the delivery task runs for the first time: `while self._running`
LoopEnter ==
    /\ task = "created"
    /\ task' = IF running THEN "get" ELSE "done"
    /\ UNCHANGED <<channels, queue, running, current, todo, closePc, busHist, simVars>>

\* subscribe(channel, callback), called from outside the delivery loop
BusSubscribe ==
    \E channel \in BusTopics, callback \in BusCallbacks :
        /\ Len(Subscribers(channels, "T1")) + Len(Subscribers(channels, "T2"))
              < MaxSubscriptions
        /\ channels' = SubscribeTo(channels, channel, callback)
        /\ UNCHANGED <<queue, running, task, current, todo, closePc, busHist, simVars>>

TestData == [type |-> "test"]

\* history entry of an accepted publish: regs is the number of callbacks
\* registered on the channel when the publish was accepted, by is who called
AcceptedEntry(chs, channel, n, by) ==
    [channel |-> channel, seq |-> n, by |-> by,
     regs |-> Len(Subscribers(chs, channel))]

\* publish(channel, message), called from outside the delivery loop; every
\* message of the bus model is published on T1, so that the callbacks
\* registered on T2 are callbacks of another topic
BusPublish ==
    /\ Len(accepted) < MaxMessages
    /\ queue' = Append(queue, Envelope("T1", TestData, Len(accepted) + 1))
    /\ accepted' = Append(accepted,
                          AcceptedEntry(channels, "T1", Len(accepted) + 1, "caller"))
    /\ UNCHANGED <<channels, running, task, current, todo, closePc,
                   invoked, closedAt, simVars>>

\* (mutant) the loop takes the newest message instead of the oldest
LoopGetNewest ==
    /\ task = "get"
    /\ queue # <<>>
    /\ queue' = SubSeq(queue, 1, Len(queue) - 1)
    /\ LET message == queue[Len(queue)]
           n == Len(Subscribers(channels, message.channel))
       IN  IF n > 0
           THEN /\ current' = message
                /\ todo' = Indices(n)
                /\ task' = "gather"
           ELSE /\ current' = NoMessage
                /\ todo' = <<>>
                /\ task' = IF running THEN "get" ELSE "done"
    /\ UNCHANGED <<channels, running, closePc, busHist, simVars>>

\* (mutant) the loop takes the next message without awaiting the gather of
\* the one before
LoopGetNoAwait ==
    /\ task \in {"get", "gather"}
    /\ queue # <<>>
    /\ queue' = Tail(queue)
    /\ LET message == Head(queue)
           n == Len(Subscribers(channels, message.channel))
       IN  IF n > 0
           THEN /\ current' = message
                /\ todo' = Indices(n)
                /\ task' = "gather"
           ELSE /\ current' = NoMessage
                /\ todo' = <<>>
                /\ task' = IF running THEN "get" ELSE "done"
    /\ UNCHANGED <<channels, running, closePc, busHist, simVars>>

\* _process_messages: queue.get() returns a message; the callbacks of its
\* channel are called (each call creates a coroutine) and handed to gather.
LoopGet ==
    /\ task = "get"
    /\ queue # <<>>
    /\ queue' = Tail(queue)
    /\ LET message == Head(queue)
           n == Len(Subscribers(channels, message.channel))
       IN  IF n > 0
           THEN /\ current' = message
                /\ todo' = Indices(n)
                /\ task' = "gather"
           ELSE /\ current' = NoMessage
                /\ todo' = <<>>
                /\ task' = IF running THEN "get" ELSE "done"
    /\ UNCHANGED <<channels, running, closePc, busHist, simVars>>

\* history: the invocations of registration r (a channel and a place in its
\* list of callbacks)
Invocations(inv, r) == IF r \in DOMAIN inv THEN inv[r] ELSE <<>>

Invoke(inv, r, entry) ==
    [x \in DOMAIN inv \cup {r} |->
        IF x = r THEN Append(Invocations(inv, r), entry) ELSE inv[x]]

\* (mutant) gather without return_exceptions and without the loop's except
\* clause: the first error ends the delivery task
AfterCallbackPropagates(result) == IF result = "raised" THEN "failed" ELSE "gather"

\* gather(*tasks, return_exceptions=True): what the loop does with the
\* result of one callback.  "gather": keep waiting for the others.
AfterCallback(result) == "gather"

\* one callback coroutine of the gathered ones runs to its end: it returns
\* or raises, and may have published a message of its own before that
RunTestCallback ==
    \E i \in DOMAIN todo :
        LET reg == todo[i]
            cb == channels[current.channel][reg]
            result == IF cb = "raises" THEN "raised" ELSE "returned"
            pub == cb = "publishes" /\ Len(accepted) < MaxMessages
        IN  /\ task = "gather"
            /\ invoked' = Invoke(invoked, <<current.channel, reg>>,
                                  [seq |-> current.seq, result |-> result])
            /\ IF pub
               THEN /\ queue' = Append(queue,
                                   Envelope("T1", TestData, Len(accepted) + 1))
                    /\ accepted' = Append(accepted,
                                   AcceptedEntry(channels, "T1", Len(accepted) + 1,
                                                 "callback"))
               ELSE UNCHANGED <<queue, accepted>>
            /\ IF AfterCallback(result) = "gather"
               THEN /\ todo' = RemoveAt(todo, i)
                    /\ task' = task
               ELSE /\ todo' = <<>>
                    /\ task' = AfterCallback(result)
            /\ UNCHANGED <<channels, running, current, closePc, closedAt,
                           simVars>>

\* gather has all results: back to `while self._running`
GatherDone ==
    /\ task = "gather"
    /\ todo = <<>>
    /\ current' = NoMessage
    /\ task' = IF running THEN "get" ELSE "done"
    /\ UNCHANGED <<channels, queue, running, todo, closePc, busHist, simVars>>

\* (mutant) queue.get() without the timeout: on an empty queue the loop never
\* comes back to `while self._running`
LoopExitNoTimeout ==
    /\ task = "get"
    /\ queue = <<>>
    /\ ~running
    /\ FALSE
    /\ UNCHANGED vars

\* wait_for(queue.get(), 0.1) times out on the empty queue and the loop
\* finds _running false
LoopExit ==
    /\ task = "get"
    /\ queue = <<>>
    /\ ~running
    /\ task' = "done"
    /\ UNCHANGED <<channels, queue, running, current, todo, closePc, busHist, simVars>>

\* (mutant) close() returns without awaiting the task
CloseNoAwait == FALSE

\* close(): what it waits for after clearing _running.  TRUE: `await
\* self._task` when there is a task.
CloseAwaitsTask == TRUE

\* close(), first half: _running = False, then await the task if there is one
BusClose ==
    /\ closePc = "idle"
    /\ running' = FALSE
    /\ closedAt' = Len(accepted)
    /\ closePc' = IF task # "none" /\ CloseAwaitsTask THEN "awaiting" ELSE "returned"
    /\ UNCHANGED <<channels, queue, task, current, todo, accepted, invoked,
                   simVars>>

\* close(), second half: the awaited task has finished
BusCloseReturn ==
    /\ closePc = "awaiting"
    /\ task = "done"
    /\ closePc' = "returned"
    /\ UNCHANGED <<channels, queue, running, task, current, todo, busHist, simVars>>

-----------------------------------------------------------------------------
(* Dictionaries *)

EmptyDict == [k \in {} |-> 0]

Get(d, k, default) == IF k \in DOMAIN d THEN d[k] ELSE default

Put(d, k, v) == [x \in DOMAIN d \cup {k} |-> IF x = k THEN v ELSE d[x]]

Del(d, k) == [x \in DOMAIN d \ {k} |-> d[x]]

Min(a, b) == IF a < b THEN a ELSE b

Max(a, b) == IF a > b THEN a ELSE b

Abs(a) == IF a < 0 THEN -a ELSE a

RECURSIVE GCD(_, _)
GCD(a, b) == IF b = 0 THEN a ELSE GCD(b, a % b)

RECURSIVE SumOver(_, _, _)
\* the sum of f[k] for k in keys
SumOver(f, keys, acc) ==
    IF keys = {} THEN acc
    ELSE LET k == CHOOSE x \in keys : TRUE
         IN  SumOver(f, keys \ {k}, acc + f[k])

\* list.remove(x): the first element equal to x goes
RECURSIVE RemoveFirst(_, _)
RemoveFirst(s, x) ==
    IF s = <<>> THEN <<>>
    ELSE IF Head(s) = x THEN Tail(s)
    ELSE <<Head(s)>> \o RemoveFirst(Tail(s), x)

\* next((o for o in orders if o.id == order_id), None): 0 stands for None
FirstWithId(orders, order_id) ==
    IF \E i \in DOMAIN orders : orders[i].id = order_id
    THEN CHOOSE i \in DOMAIN orders :
            /\ orders[i].id = order_id
            /\ \A j \in 1..(i - 1) : orders[j].id # order_id
    ELSE 0

-----------------------------------------------------------------------------
(* The simulation as TradingSimulation wires it, in cents *)

Analysts == {"analyst_1"}
Traders == {"trader_1", "trader_2"}
RiskManagers == {"risk_manager_1", "risk_manager_2"}

\* historical_data's symbols in the order of the dict
SymbolOrder == <<"AAPL", "MSFT">>
Symbols == Range(SymbolOrder)

\* _create_agents: each trader gets its own slice of the symbols
TraderSymbols(t) == IF t = "trader_1" THEN {"AAPL"} ELSE {"MSFT"}

\* TradingSimulation(initial_cash=1000000.0), RiskManagerAgent and
\* TraderAgent defaults
InitialPortfolioValue == 100000000
MaxPositionSize == 5000000
StopLossPercent == 5
MaxPortfolioRiskPercent == 20
MaxPositionValue == 2000000
CommissionPerMille == 1

\* Bound: the number of trading days of the timeline
MaxDays == 2

\* the (open, close) pairs a trading day of AAPL may carry: a rise and a
\* fall of some 10 %; MSFT moves by less than the analysts' 1 % every day
DayRows == {[open |-> 10000, close |-> 11000],
            [open |-> 11000, close |-> 10000]}

FlatRow == [open |-> 10000, close |-> 10000]

-----------------------------------------------------------------------------
(* History of the order pipeline *)

\* a status is written to an Order the trader holds
WriteStatus(h, order_id, status) ==
    [h EXCEPT !.status = Put(@, order_id, Append(Get(@, order_id, <<>>), status))]

\* the trader takes an order off pending_orders
NoteRemoval(h, order_id, by, status) ==
    [h EXCEPT !.removed = Append(@, [order_id |-> order_id, by |-> by,
                                      status |-> status])]

-----------------------------------------------------------------------------
(* AnalystAgent *)

\* _generate_signal: <<signal_type, confidence in percent>>, or <<>> when the
\* move is below 1 %
GenerateSignal(open, close) ==
    IF 100 * Abs(close - open) < open THEN <<>>
    ELSE IF 50 * (close - open) > open
         THEN <<"BULLISH", Min(90, 50 + (1000 * Abs(close - open)) \div open)>>
    ELSE IF 50 * (close - open) < -open
         THEN <<"BEARISH", Min(90, 50 + (1000 * Abs(close - open)) \div open)>>
    ELSE <<"NEUTRAL", 30>>

\* AnalystAgent._on_market_update; coin is random.random() < 0.3
AnalystOnMarketUpdate(a, m) ==
    \E coin \in BOOLEAN :
        LET sig == IF m.type = "market_update" /\ coin
                   THEN GenerateSignal(m.open, m.close) ELSE <<>>
            n == analyst[a].signal_count + 1
        IN  /\ IF sig # <<>>
               THEN /\ analyst' = [analyst EXCEPT ![a].signal_count = n]
                    /\ queue' = Append(queue, Envelope("signals",
                          [type |-> "signal", signal_id |-> <<a, n>>,
                           agent_id |-> a, symbol |-> m.symbol,
                           signal_type |-> sig[1], confidence |-> sig[2]], 0))
               ELSE UNCHANGED <<analyst, queue>>
            /\ UNCHANGED <<trader, rm, market, hist>>

-----------------------------------------------------------------------------
(* TraderAgent *)

NewOrder(t, n, symbol, side, quantity, price, signal_id) ==
    [id |-> <<t, n>>, trader_id |-> t, symbol |-> symbol, side |-> side,
     quantity |-> quantity, price |-> price, status |-> "PENDING",
     signal_id |-> signal_id]

OrderRequest(o) ==
    [type |-> "order_request", order_id |-> o.id, trader_id |-> o.trader_id,
     symbol |-> o.symbol, side |-> o.side, quantity |-> o.quantity,
     price |-> o.price, signal_id |-> o.signal_id]

\* _place_buy_order: the quantity bought at current_price, 0 for the early
\* returns.  min(cash * 0.1, max_position_value * 0.3) / price, truncated.
BuyQuantity(cash, current_price) ==
    IF cash < 10 * current_price \/ (MaxPositionValue * 3) \div 10 < current_price
    THEN 0
    ELSE Min(cash \div (10 * current_price),
             ((MaxPositionValue * 3) \div 10) \div current_price)

\* _place_sell_order: max(1, int(current_position * 0.5))
SellQuantity(current_position) ==
    IF current_position <= 0 THEN 0 ELSE Max(1, current_position \div 2)

\* (mutant) _on_signal without its second confidence threshold
OrderForSignalLowBar(t, s, m) ==
    IF m.type # "signal" \/ m.symbol \notin s.symbols THEN <<>>
    ELSE IF m.confidence < 60 THEN <<>>
    ELSE IF m.symbol \notin DOMAIN s.current_prices THEN <<>>
    ELSE LET current_price == s.current_prices[m.symbol]
             current_position == Get(s.positions, m.symbol, 0)
         IN  IF m.signal_type = "BULLISH"
             THEN IF current_position * current_price < MaxPositionValue
                     /\ BuyQuantity(s.cash, current_price) >= 1
                  THEN <<NewOrder(t, s.order_count + 1, m.symbol, "BUY",
                                  BuyQuantity(s.cash, current_price),
                                  (current_price * 101) \div 100, m.signal_id)>>
                  ELSE <<>>
             ELSE IF m.signal_type = "BEARISH"
             THEN IF current_position > 0
                  THEN <<NewOrder(t, s.order_count + 1, m.symbol, "SELL",
                                  SellQuantity(current_position),
                                  (current_price * 99) \div 100, m.signal_id)>>
                  ELSE <<>>
             ELSE <<>>

\* the order a signal makes the trader place, or <<>>: _on_signal with
\* _place_buy_order / _place_sell_order
OrderForSignal(t, s, m) ==
    IF m.type # "signal" \/ m.symbol \notin s.symbols THEN <<>>
    ELSE IF m.confidence < 60 THEN <<>>
    ELSE IF m.symbol \notin DOMAIN s.current_prices THEN <<>>
    ELSE LET current_price == s.current_prices[m.symbol]
             current_position == Get(s.positions, m.symbol, 0)
         IN  IF m.signal_type = "BULLISH" /\ m.confidence > 65
             THEN IF current_position * current_price < MaxPositionValue
                     /\ BuyQuantity(s.cash, current_price) >= 1
                  THEN <<NewOrder(t, s.order_count + 1, m.symbol, "BUY",
                                  BuyQuantity(s.cash, current_price),
                                  (current_price * 101) \div 100, m.signal_id)>>
                  ELSE <<>>
             ELSE IF m.signal_type = "BEARISH" /\ m.confidence > 65
             THEN IF current_position > 0
                  THEN <<NewOrder(t, s.order_count + 1, m.symbol, "SELL",
                                  SellQuantity(current_position),
                                  (current_price * 99) \div 100, m.signal_id)>>
                  ELSE <<>>
             ELSE <<>>

\* TraderAgent._on_signal
TraderOnSignal(t, m) ==
    LET placed == OrderForSignal(t, trader[t], m)
    IN  /\ IF placed # <<>>
           THEN /\ trader' = [trader EXCEPT
                       ![t].order_count = @ + 1,
                       ![t].pending_orders = Append(@, placed[1])]
                /\ queue' = Append(queue,
                                   Envelope("orders", OrderRequest(placed[1]), 0))
                /\ hist' = WriteStatus(hist, placed[1].id, "PENDING")
           ELSE UNCHANGED <<trader, queue, hist>>
        /\ UNCHANGED <<analyst, rm, market>>

\* TraderAgent._on_market_update
TraderOnMarketUpdate(t, m) ==
    /\ IF m.type = "market_update" /\ m.close # 0
       THEN trader' = [trader EXCEPT
                ![t].current_prices = Put(@, m.symbol, m.close)]
       ELSE UNCHANGED trader
    /\ UNCHANGED <<queue, analyst, rm, market, hist>>

OrderApproved(o) ==
    [type |-> "order_approved", order_id |-> o.id, trader_id |-> o.trader_id,
     symbol |-> o.symbol, side |-> o.side, quantity |-> o.quantity,
     price |-> o.price]

\* (mutant) the trader takes every decision for an approval
DecisionApprovedAlways(m) == TRUE

\* approved = message.get("approved", False)
DecisionApproved(m) == m.approved

\* TraderAgent._on_risk_decision
TraderOnRiskDecision(t, m) ==
    LET i == IF m.type = "risk_decision"
             THEN FirstWithId(trader[t].pending_orders, m.order_id) ELSE 0
        matching_order == trader[t].pending_orders[i]
    IN  /\ IF i = 0
           THEN UNCHANGED <<trader, queue, hist>>
           ELSE IF DecisionApproved(m)
           THEN /\ trader' = [trader EXCEPT
                       ![t].pending_orders[i].status = "APPROVED"]
                /\ queue' = Append(queue, Envelope("approved_orders",
                                   OrderApproved(matching_order), 0))
                /\ hist' = [WriteStatus(hist, m.order_id, "APPROVED") EXCEPT
                               !.approvals = Append(@, m.order_id)]
           ELSE /\ trader' = [trader EXCEPT
                       ![t].pending_orders = RemoveAt(@, i)]
                /\ UNCHANGED queue
                /\ hist' = [NoteRemoval(WriteStatus(hist, m.order_id, "REJECTED"),
                                        m.order_id, "risk_decision", "REJECTED")
                            EXCEPT !.rejections = @ \cup {m.order_id}]
        /\ UNCHANGED <<analyst, rm, market>>

\* (mutant) a fill handler that books every fill addressed to the trader,
\* pending or not
TraderOnTradeExecutedAnyFill(t, m) ==
    LET s == trader[t]
        held == Get(s.positions, m.symbol, 0)
        i == IF m.type = "trade_executed"
             THEN FirstWithId(s.pending_orders, m.order_id) ELSE 0
    IN  /\ IF m.type # "trade_executed" \/ m.trader_id # t
           THEN UNCHANGED <<trader, hist>>
           ELSE /\ trader' = [trader EXCEPT ![t] =
                       [s EXCEPT
                          !.positions =
                              IF m.side = "BUY"
                              THEN Put(@, m.symbol, held + m.quantity)
                              ELSE Put(@, m.symbol, held - m.quantity),
                          !.cash =
                              IF m.side = "BUY"
                              THEN @ - (m.execution_price * m.quantity + m.commission)
                              ELSE @ + (m.execution_price * m.quantity - m.commission),
                          !.pending_orders =
                              IF i = 0 THEN @ ELSE RemoveAt(@, i)]]
                /\ hist' = IF i = 0 THEN hist
                           ELSE NoteRemoval(hist, m.order_id, "trade_executed",
                                            s.pending_orders[i].status)
        /\ UNCHANGED <<queue, analyst, rm, market>>

\* a fill handler that forgets the commission
TraderOnTradeExecutedNoCommission(t, m) ==
    LET i == IF m.type = "trade_executed"
             THEN FirstWithId(trader[t].pending_orders, m.order_id) ELSE 0
        s == trader[t]
        held == Get(s.positions, m.symbol, 0)
    IN  /\ IF i = 0
           THEN UNCHANGED <<trader, hist>>
           ELSE /\ trader' = [trader EXCEPT ![t] =
                       [s EXCEPT
                          !.positions =
                              IF m.side = "BUY"
                              THEN Put(@, m.symbol, held + m.quantity)
                              ELSE IF m.side = "SELL"
                              THEN Put(@, m.symbol, held - m.quantity)
                              ELSE @,
                          !.cash =
                              IF m.side = "BUY"
                              THEN @ - (m.execution_price * m.quantity)
                              ELSE IF m.side = "SELL"
                              THEN @ + (m.execution_price * m.quantity)
                              ELSE @,
                          !.pending_orders = RemoveAt(@, i)]]
                /\ hist' = NoteRemoval(hist, m.order_id, "trade_executed",
                                       s.pending_orders[i].status)
        /\ UNCHANGED <<queue, analyst, rm, market>>

\* TraderAgent._on_trade_executed
TraderOnTradeExecuted(t, m) ==
    LET i == IF m.type = "trade_executed"
             THEN FirstWithId(trader[t].pending_orders, m.order_id) ELSE 0
        s == trader[t]
        held == Get(s.positions, m.symbol, 0)
    IN  /\ IF i = 0
           THEN UNCHANGED <<trader, hist>>
           ELSE /\ trader' = [trader EXCEPT ![t] =
                       [s EXCEPT
                          !.positions =
                              IF m.side = "BUY"
                              THEN Put(@, m.symbol, held + m.quantity)
                              ELSE IF m.side = "SELL"
                              THEN Put(@, m.symbol, held - m.quantity)
                              ELSE @,
                          !.cash =
                              IF m.side = "BUY"
                              THEN @ - (m.execution_price * m.quantity + m.commission)
                              ELSE IF m.side = "SELL"
                              THEN @ + (m.execution_price * m.quantity - m.commission)
                              ELSE @,
                          !.pending_orders = RemoveAt(@, i)]]
                /\ hist' = NoteRemoval(hist, m.order_id, "trade_executed",
                                       s.pending_orders[i].status)
        /\ UNCHANGED <<queue, analyst, rm, market>>

-----------------------------------------------------------------------------
(* RiskManagerAgent *)

\* trader_key = f"{trader_id}_{symbol}"
TraderKey(trader_id, symbol) == <<trader_id, symbol>>

\* self.trader_cash.get(trader_id, self.initial_portfolio_value / 4)
ShadowCash(s, trader_id) ==
    Get(s.trader_cash, trader_id, s.initial_portfolio_value \div 4)

\* self.current_positions.get(trader_key, {}).get("quantity", 0)
ShadowQuantity(s, trader_id, symbol) ==
    IF TraderKey(trader_id, symbol) \in DOMAIN s.current_positions
    THEN s.current_positions[TraderKey(trader_id, symbol)].quantity
    ELSE 0

\* sum(pos.quantity * current_prices.get(pos.symbol, 0) for pos in positions)
TotalExposure(s) ==
    SumOver([k \in DOMAIN s.current_positions |->
                s.current_positions[k].quantity
                  * Get(s.current_prices, s.current_positions[k].symbol, 0)],
            DOMAIN s.current_positions, 0)

\* self.initial_portfolio_value * self.max_portfolio_risk
MaxAllowedExposure(s) ==
    (s.initial_portfolio_value * MaxPortfolioRiskPercent) \div 100

\* (mutant) the exposure cap is applied to SELL orders too, and before the
\* cash check
ValidateOrderExposureFirst(s, trader_id, symbol, side, quantity, price) ==
    IF symbol \notin DOMAIN s.current_prices
    THEN <<FALSE, "No market data available for symbol">>
    ELSE LET order_value == quantity * s.current_prices[symbol]
         IN  IF order_value > MaxPositionSize
             THEN <<FALSE, "Order value exceeds max position size">>
             ELSE IF TotalExposure(s) + order_value > MaxAllowedExposure(s)
             THEN <<FALSE, "Portfolio risk limit exceeded">>
             ELSE IF side = "BUY" /\ order_value > ShadowCash(s, trader_id)
             THEN <<FALSE, "Insufficient cash">>
             ELSE IF side = "SELL" /\ quantity > ShadowQuantity(s, trader_id, symbol)
             THEN <<FALSE, "Insufficient shares">>
             ELSE <<TRUE, "Order approved">>

\* RiskManagerAgent._validate_order on shadow state s: <<approved, reason>>
\* (the reason without the amounts its text carries)
ValidateOrder(s, trader_id, symbol, side, quantity, price) ==
    IF symbol \notin DOMAIN s.current_prices
    THEN <<FALSE, "No market data available for symbol">>
    ELSE LET current_price == s.current_prices[symbol]
             order_value == quantity * current_price
         IN  IF order_value > MaxPositionSize
             THEN <<FALSE, "Order value exceeds max position size">>
             ELSE IF side = "BUY" /\ order_value > ShadowCash(s, trader_id)
             THEN <<FALSE, "Insufficient cash">>
             ELSE IF side = "SELL" /\ quantity > ShadowQuantity(s, trader_id, symbol)
             THEN <<FALSE, "Insufficient shares">>
             ELSE IF side = "BUY"
                     /\ TotalExposure(s) + order_value > MaxAllowedExposure(s)
             THEN <<FALSE, "Portfolio risk limit exceeded">>
             ELSE <<TRUE, "Order approved">>

RiskDecision(order_id, approved, reason) ==
    [type |-> "risk_decision", order_id |-> order_id, approved |-> approved,
     reason |-> reason]

\* (mutant) a failed validation is not published
PublishedDecisionIfApproved(order_id, decision) ==
    IF decision[1] THEN <<RiskDecision(order_id, decision[1], decision[2])>>
    ELSE <<>>

\* what _on_order_request publishes for a decision
PublishedDecision(order_id, decision) ==
    <<RiskDecision(order_id, decision[1], decision[2])>>

\* (mutant) an approval that reserves the cash of a BUY in the shadow state
RmOnOrderRequestReserving(r, m) ==
    /\ IF m.type = "order_request"
       THEN LET decision == ValidateOrder(rm[r], m.trader_id, m.symbol, m.side,
                                          m.quantity, m.price)
                out == PublishedDecision(m.order_id, decision)
            IN  /\ rm' = [rm EXCEPT
                       ![r].trader_cash =
                           IF decision[1] /\ m.side = "BUY"
                           THEN Put(@, m.trader_id,
                                    ShadowCash(rm[r], m.trader_id)
                                      - m.quantity * rm[r].current_prices[m.symbol])
                           ELSE @,
                       ![r].approved_count = IF decision[1] THEN @ + 1 ELSE @,
                       ![r].rejected_count = IF decision[1] THEN @ ELSE @ + 1]
                /\ queue' = queue \o
                       [i \in DOMAIN out |-> Envelope("risk_decisions", out[i], 0)]
                /\ hist' = [hist EXCEPT
                       !.requests[r] = Append(@, m.order_id),
                       !.validated[r] = Append(@, decision),
                       !.decisions[r] = @ \o out]
       ELSE UNCHANGED <<rm, queue, hist>>
    /\ UNCHANGED <<analyst, trader, market>>

\* RiskManagerAgent._on_order_request
RmOnOrderRequest(r, m) ==
    /\ IF m.type = "order_request"
       THEN LET decision == ValidateOrder(rm[r], m.trader_id, m.symbol, m.side,
                                          m.quantity, m.price)
                out == PublishedDecision(m.order_id, decision)
            IN  /\ rm' = [rm EXCEPT
                       ![r].approved_count = IF decision[1] THEN @ + 1 ELSE @,
                       ![r].rejected_count = IF decision[1] THEN @ ELSE @ + 1]
                /\ queue' = queue \o
                       [i \in DOMAIN out |-> Envelope("risk_decisions", out[i], 0)]
                /\ hist' = [hist EXCEPT
                       !.requests[r] = Append(@, m.order_id),
                       !.validated[r] = Append(@, decision),
                       !.decisions[r] = @ \o out]
       ELSE UNCHANGED <<rm, queue, hist>>
    /\ UNCHANGED <<analyst, trader, market>>

\* RiskManagerAgent._on_market_update
RmOnMarketUpdate(r, m) ==
    /\ IF m.type = "market_update" /\ m.close # 0
       THEN rm' = [rm EXCEPT ![r].current_prices = Put(@, m.symbol, m.close)]
       ELSE UNCHANGED rm
    /\ UNCHANGED <<queue, analyst, trader, market, hist>>

\* a rational avg_cost in lowest terms
Ratio(n, d) == LET g == GCD(n, d) IN IF g = 0 THEN [n |-> 0, d |-> 1]
                                     ELSE [n |-> n \div g, d |-> d \div g]

\* the shadow state after a trade_executed message: _on_trade_executed
ShadowAfterTrade(s, m) ==
    LET key == TraderKey(m.trader_id, m.symbol)
        position == Get(s.current_positions, key,
                        [trader_id |-> m.trader_id, symbol |-> m.symbol,
                         quantity |-> 0, avg_cost |-> [n |-> 0, d |-> 1]])
        cost == m.execution_price * m.quantity
    IN  IF m.side = "BUY"
        THEN LET quantity == position.quantity + m.quantity
                 \* total_cost = quantity * avg_cost + fill quantity * price
                 total_n == position.quantity * position.avg_cost.n
                              + cost * position.avg_cost.d
                 total_d == position.avg_cost.d
             IN  [s EXCEPT
                    !.current_positions = Put(@, key,
                        [position EXCEPT
                            !.quantity = quantity,
                            !.avg_cost = IF quantity > 0
                                         THEN Ratio(total_n, total_d * quantity)
                                         ELSE [n |-> 0, d |-> 1]]),
                    !.trader_cash = Put(@, m.trader_id,
                        ShadowCash(s, m.trader_id) - (cost + m.commission))]
        ELSE IF m.side = "SELL"
        THEN [s EXCEPT
                !.current_positions =
                    IF position.quantity - m.quantity <= 0
                    THEN Del(@, key)
                    ELSE Put(@, key, [position EXCEPT !.quantity = @ - m.quantity]),
                !.trader_cash = Put(@, m.trader_id,
                    ShadowCash(s, m.trader_id) + (cost - m.commission))]
        ELSE [s EXCEPT !.current_positions = Put(@, key, position)]

\* RiskManagerAgent._on_trade_executed
RmOnTradeExecuted(r, m) ==
    /\ IF m.type = "trade_executed"
       THEN rm' = [rm EXCEPT ![r] = ShadowAfterTrade(@, m)]
       ELSE UNCHANGED rm
    /\ UNCHANGED <<queue, analyst, trader, market, hist>>

\* (mutant) a stop loss that also fires at the threshold itself
StopLossDueAtThreshold(s, position) ==
    /\ position.symbol \in DOMAIN s.current_prices
    /\ position.quantity > 0
    /\ (position.avg_cost.n - s.current_prices[position.symbol] * position.avg_cost.d)
          * 100 >= StopLossPercent * position.avg_cost.n

\* _check_stop_losses, its test on one shadow position:
\* not (symbol not in current_prices or quantity <= 0), and
\* (avg_cost - current_price) / avg_cost > stop_loss_percent
StopLossDue(s, position) ==
    /\ position.symbol \in DOMAIN s.current_prices
    /\ position.quantity > 0
    /\ (position.avg_cost.n - s.current_prices[position.symbol] * position.avg_cost.d)
          * 100 > StopLossPercent * position.avg_cost.n

\* the stop_loss message _check_stop_losses publishes for a position
StopLossAlert(s, position) ==
    LET current_price == s.current_prices[position.symbol]
    IN  [type |-> "stop_loss", trader_id |-> position.trader_id,
         symbol |-> position.symbol, quantity |-> position.quantity,
         avg_cost |-> position.avg_cost, current_price |-> current_price,
         loss_percent |->
             Ratio(position.avg_cost.n - current_price * position.avg_cost.d,
                   position.avg_cost.n)]

\* the messages one pass of _check_stop_losses publishes when
\* list(self.current_positions.items()) yields the keys in the order `keys`
StopLossAlerts(s, keys) ==
    LET Due(k) == StopLossDue(s, s.current_positions[k])
        due == SelectSeq(keys, Due)
    IN  [i \in DOMAIN due |-> StopLossAlert(s, s.current_positions[due[i]])]

\* the orders in which a dict with the keys K can be iterated
Orderings(K) ==
    {f \in [1..Cardinality(K) -> K] :
        \A i, j \in 1..Cardinality(K) : i # j => f[i] # f[j]}

-----------------------------------------------------------------------------
(* MarketEnvironment and TradingSimulation *)

\* (mutant) a submit_order that queues an order of any status
SubmitOrderAnyStatus(mk, order) ==
    [mk EXCEPT !.pending_orders = Append(@, order)]

\* MarketEnvironment.submit_order
SubmitOrder(mk, order) ==
    IF order.status # "APPROVED" THEN mk
    ELSE [mk EXCEPT !.pending_orders = Append(@, order)]

\* TradingSimulation._on_approved_order
SimOnApprovedOrder(m) ==
    /\ IF m.type = "order_approved"
       THEN market' = SubmitOrder(market,
                [id |-> m.order_id, trader_id |-> m.trader_id,
                 symbol |-> m.symbol, side |-> m.side, quantity |-> m.quantity,
                 price |-> m.price, status |-> "APPROVED"])
       ELSE UNCHANGED market
    /\ UNCHANGED <<queue, analyst, trader, rm, hist>>

\* (mutant) a sweep that executes every order whose symbol has a price
ExecutesAtAnyPrice(prices, order) == order.symbol \in DOMAIN prices

\* execute_pending_orders: whether the sweep executes the order now
Executes(prices, order) ==
    /\ order.symbol \in DOMAIN prices
    /\ ~(order.side = "BUY" /\ prices[order.symbol] > order.price)
    /\ ~(order.side = "SELL" /\ prices[order.symbol] < order.price)

TradeOf(mk, order) ==
    LET execution_price == mk.current_prices[order.symbol]
    IN  [id |-> <<"trade", order.id>>, timestamp |-> mk.current_time,
         order_id |-> order.id, symbol |-> order.symbol, side |-> order.side,
         quantity |-> order.quantity, execution_price |-> execution_price,
         commission |->
             (execution_price * order.quantity * CommissionPerMille) \div 1000,
         trader_id |-> order.trader_id]

TradeExecuted(trade) ==
    [type |-> "trade_executed", trade_id |-> trade.id,
     order_id |-> trade.order_id, symbol |-> trade.symbol, side |-> trade.side,
     quantity |-> trade.quantity, execution_price |-> trade.execution_price,
     commission |-> trade.commission, trader_id |-> trade.trader_id]

\* the trades of one execute_pending_orders() sweep, in queue order
SweepTrades(mk) ==
    LET Hit(o) == Executes(mk.current_prices, o)
        hits == SelectSeq(mk.pending_orders, Hit)
    IN  [i \in DOMAIN hits |-> TradeOf(mk, hits[i])]

\* MarketEnvironment after execute_pending_orders(): every executed order
\* left pending_orders and its trade joined executed_trades
AfterSweep(mk) ==
    LET Miss(o) == ~Executes(mk.current_prices, o)
    IN  [mk EXCEPT !.pending_orders = SelectSeq(@, Miss),
                   !.executed_trades = @ \o SweepTrades(mk)]

\* the messages execute_pending_orders() publishes
SweepMessages(mk) ==
    LET trades == SweepTrades(mk)
    IN  [i \in DOMAIN trades |-> Envelope("trades", TradeExecuted(trades[i]), 0)]

\* advance_time(day) with rows: symbol -> that day's (open, close): the
\* price table afterwards
AfterAdvance(mk, day, rows) ==
    [mk EXCEPT !.current_time = day,
               !.current_prices =
                   [s \in DOMAIN @ \cup DOMAIN rows |->
                       IF s \in DOMAIN rows THEN rows[s].close ELSE @[s]]]

RECURSIVE AdvanceMessages(_, _)
\* the market_update messages of advance_time, in the order of the symbols
AdvanceMessages(rows, order) ==
    IF order = <<>> THEN <<>>
    ELSE (IF Head(order) \in DOMAIN rows
          THEN <<Envelope("market_data",
                    [type |-> "market_update", symbol |-> Head(order),
                     open |-> rows[Head(order)].open,
                     close |-> rows[Head(order)].close], 0)>>
          ELSE <<>>) \o AdvanceMessages(rows, Tail(order))

\* the data of one trading day: every symbol has a row
DayData ==
    {[s \in Symbols |-> IF s = "AAPL" THEN row ELSE FlatRow] : row \in DayRows}

\* market_env.timeline and data_by_date: for every day, the rows it may carry
Timeline == [day \in 1..MaxDays |-> DayData]

\* run(), first iteration up to its sleep: advance_time(timeline[0]); order
\* is that of the symbols in a day's data
MainStartOn(timeline, order) ==
    /\ mainPc = [day |-> 0, at |-> "start"]
    /\ task = "get"
    /\ \E rows \in timeline[1] :
          /\ market' = AfterAdvance(market, 1, rows)
          /\ queue' = queue \o AdvanceMessages(rows, order)
    /\ mainPc' = [day |-> 1, at |-> "sleep"]
    /\ UNCHANGED <<channels, running, task, current, todo, closePc, busHist,
                   analyst, trader, rm, hist, probe, otherVars>>

MainStart == MainStartOn(Timeline, SymbolOrder)

\* sum(agent.get_portfolio_value()) of the portfolio_update message
PortfolioValue ==
    SumOver([t \in Traders |->
                trader[t].cash
                  + SumOver([s \in DOMAIN trader[t].positions |->
                               trader[t].positions[s]
                                 * Get(trader[t].current_prices, s, 0)],
                            DOMAIN trader[t].positions, 0)],
            Traders, 0)

\* run(), from the end of `await asyncio.sleep(0.1)` to the next sleep:
\* execute_pending_orders(), the portfolio_update of every tenth day, and
\* advance_time of the next day if there is one
MainWakeOn(timeline, order) ==
    /\ mainPc.at = "sleep"
    /\ task = "get"
    /\ LET swept == AfterSweep(market)
           snapshot == IF (mainPc.day - 1) % 10 = 0
                       THEN <<Envelope("portfolio_update",
                                [type |-> "portfolio_snapshot",
                                 date |-> mainPc.day,
                                 total_value |-> PortfolioValue], 0)>>
                       ELSE <<>>
       IN  IF mainPc.day < Len(timeline)
           THEN \E rows \in timeline[mainPc.day + 1] :
                   /\ market' = AfterAdvance(swept, mainPc.day + 1, rows)
                   /\ queue' = queue \o SweepMessages(market) \o snapshot
                                    \o AdvanceMessages(rows, order)
                   /\ mainPc' = [day |-> mainPc.day + 1, at |-> "sleep"]
           ELSE /\ market' = swept
                /\ queue' = queue \o SweepMessages(market) \o snapshot
                /\ mainPc' = [day |-> mainPc.day, at |-> "finished"]
    /\ UNCHANGED <<channels, running, task, current, todo, closePc, busHist,
                   analyst, trader, rm, hist, probe, otherVars>>

MainWake == MainWakeOn(Timeline, SymbolOrder)

\* the callback of an agent, by the method it is bound to
Callback(cb, m) ==
    CASE cb[1] \in Analysts /\ cb[2] = "_on_market_update" ->
            AnalystOnMarketUpdate(cb[1], m)
      [] cb[1] \in Traders /\ cb[2] = "_on_signal" -> TraderOnSignal(cb[1], m)
      [] cb[1] \in Traders /\ cb[2] = "_on_market_update" ->
            TraderOnMarketUpdate(cb[1], m)
      [] cb[1] \in Traders /\ cb[2] = "_on_risk_decision" ->
            TraderOnRiskDecision(cb[1], m)
      [] cb[1] \in Traders /\ cb[2] = "_on_trade_executed" ->
            TraderOnTradeExecuted(cb[1], m)
      [] cb[1] \in RiskManagers /\ cb[2] = "_on_order_request" ->
            RmOnOrderRequest(cb[1], m)
      [] cb[1] \in RiskManagers /\ cb[2] = "_on_market_update" ->
            RmOnMarketUpdate(cb[1], m)
      [] cb[1] \in RiskManagers /\ cb[2] = "_on_trade_executed" ->
            RmOnTradeExecuted(cb[1], m)
      [] cb[1] = "simulation" /\ cb[2] = "_on_approved_order" ->
            SimOnApprovedOrder(m)

\* gather runs the callbacks of the message: the agents' callbacks never
\* suspend, so each runs to its end in the order of the channel's list
RunAgentCallback ==
    /\ task = "gather"
    /\ todo # <<>>
    /\ Callback(channels[current.channel][Head(todo)], current.data)
    /\ todo' = Tail(todo)
    /\ UNCHANGED <<channels, running, task, current, closePc, busHist, mainPc,
                   probe, otherVars>>

\* the subscriptions after _create_agents and the start() of every agent,
\* in the order analysts, traders, risk managers
Bound(agents, method) ==
    LET order == <<"analyst_1", "trader_1", "trader_2",
                   "risk_manager_1", "risk_manager_2">>
        Is(a) == a \in agents
    IN  [i \in DOMAIN SelectSeq(order, Is) |-> <<SelectSeq(order, Is)[i], method>>]

SimChannels ==
    [c \in {"market_data", "signals", "orders", "risk_decisions",
            "approved_orders", "trades"} |->
        CASE c = "market_data" ->
                Bound(Analysts, "_on_market_update")
                  \o Bound(Traders, "_on_market_update")
                  \o Bound(RiskManagers, "_on_market_update")
          [] c = "signals" -> Bound(Traders, "_on_signal")
          [] c = "orders" -> Bound(RiskManagers, "_on_order_request")
          [] c = "risk_decisions" -> Bound(Traders, "_on_risk_decision")
          [] c = "approved_orders" -> <<<<"simulation", "_on_approved_order">>>>
          [] c = "trades" ->
                Bound(Traders, "_on_trade_executed")
                  \o Bound(RiskManagers, "_on_trade_executed")]

InitAnalyst == [a \in Analysts |-> [signal_count |-> 0]]

\* TraderAgent.__init__
NewTrader(symbols, initial_cash) ==
    [symbols |-> symbols, cash |-> initial_cash,
     positions |-> [s \in symbols |-> 0],
     current_prices |-> EmptyDict,
     pending_orders |-> <<>>,
     order_count |-> 0]

InitTrader ==
    [t \in Traders |-> NewTrader(TraderSymbols(t), InitialPortfolioValue \div 4)]

\* RiskManagerAgent.__init__
NewRm(initial_portfolio_value) ==
    [initial_portfolio_value |-> initial_portfolio_value,
     current_positions |-> EmptyDict, current_prices |-> EmptyDict,
     trader_cash |-> EmptyDict, approved_count |-> 0, rejected_count |-> 0]

InitRm == [r \in RiskManagers |-> NewRm(InitialPortfolioValue)]

\* The shadow entry of a trader that is not among Traders, as its fills leave
\* it in every risk manager (_on_trade_executed), and the price the risk
\* managers know for its symbol: an exposure of 99.8 % of the allowed one.
CarriedPosition ==
    [trader_id |-> "trader_3", symbol |-> "NVDA", quantity |-> 400,
     avg_cost |-> [n |-> 12000, d |-> 1]]

CarriedPrice == [symbol |-> "NVDA", close |-> 49900]

\* a risk manager that has shadowed the fills of `carried` (a set of
\* CarriedPosition-like entries) and nothing else
RmCarrying(carried) ==
    [initial_portfolio_value |-> InitialPortfolioValue,
     current_positions |->
        [k \in {TraderKey(c.trader_id, c.symbol) : c \in carried} |->
            CHOOSE c \in carried : TraderKey(c.trader_id, c.symbol) = k],
     current_prices |->
        IF carried = {} THEN EmptyDict
        ELSE Put(EmptyDict, CarriedPrice.symbol, CarriedPrice.close),
     trader_cash |-> EmptyDict, approved_count |-> 0, rejected_count |-> 0]

InitMarket ==
    [current_time |-> 0, current_prices |-> EmptyDict,
     pending_orders |-> <<>>, executed_trades |-> <<>>]

InitHist ==
    [status |-> EmptyDict, removed |-> <<>>, approvals |-> <<>>,
     rejections |-> {},
     requests |-> [r \in RiskManagers |-> <<>>],
     validated |-> [r \in RiskManagers |-> <<>>],
     decisions |-> [r \in RiskManagers |-> <<>>]]

NoProbe == [out |-> <<>>]

\* no RedisMessageBus, BaseAgent or Portfolio object takes part
NoObject == [made |-> FALSE]

InitOther ==
    /\ redis = NoObject
    /\ lifecycle = NoObject
    /\ portfolio = NoObject

InitAgents ==
    /\ analyst = InitAnalyst
    /\ trader = InitTrader
    /\ market = InitMarket
    /\ mainPc = [day |-> 0, at |-> "start"]
    /\ hist = InitHist
    /\ probe = NoProbe

InitSim ==
    /\ InitAgents
    /\ rm = InitRm

InitBus ==
    /\ channels = <<>>
    /\ queue = <<>>
    /\ running = FALSE
    /\ task = "none"
    /\ current = NoMessage
    /\ todo = <<>>
    /\ closePc = "idle"
    /\ accepted = <<>>
    /\ invoked = EmptyDict
    /\ closedAt = 0
    /\ InitSim
    /\ InitOther

NextBus ==
    \/ BusStart
    \/ BusSubscribe
    \/ BusPublish
    \/ LoopEnter
    \/ LoopGet
    \/ RunTestCallback
    \/ GatherDone
    \/ LoopExit
    \/ BusClose
    \/ BusCloseReturn

SpecBus == InitBus /\ [][NextBus]_vars

-----------------------------------------------------------------------------
(* The simulation: after initialize() and the start() of every agent *)

Init ==
    /\ channels = SimChannels
    /\ queue = <<>>
    /\ running = TRUE
    /\ task = "get"
    /\ current = NoMessage
    /\ todo = <<>>
    /\ closePc = "idle"
    /\ accepted = <<>>
    /\ invoked = EmptyDict
    /\ closedAt = 0
    /\ InitAgents
    /\ InitOther
    \* the window modelled opens with the risk managers either fresh or
    \* carrying the exposure of the traders outside it
    /\ \E carried \in {{}, {CarriedPosition}} :
          rm = [r \in RiskManagers |-> RmCarrying(carried)]

Next ==
    \/ MainStart
    \/ MainWake
    \/ LoopGet
    \/ RunAgentCallback
    \/ GatherDone

Spec == Init /\ [][Next]_vars

-----------------------------------------------------------------------------
(* The pipeline with the _run tasks of the risk managers *)

\* RiskManagerAgent._run of r wakes from its sleep and makes one pass of
\* _check_stop_losses; the bus has taken the alerts of the pass before off
\* the queue (the passes are 2 s apart)
RunStopLosses(r) ==
    /\ \A i \in DOMAIN queue : queue[i].channel # "stop_loss_alerts"
    /\ \E keys \in Orderings(DOMAIN rm[r].current_positions) :
          LET out == StopLossAlerts(rm[r], keys)
          IN  queue' = queue \o
                  [i \in DOMAIN out |-> Envelope("stop_loss_alerts", out[i], 0)]
    /\ UNCHANGED <<channels, running, task, current, todo, closePc, busHist,
                   simVars>>

NextWatch ==
    \/ Next
    \/ \E r \in RiskManagers : RunStopLosses(r)

SpecWatch == Init /\ [][NextWatch]_vars

-----------------------------------------------------------------------------
(* The pipeline with signals that another client of the bus publishes: the
   analysts of this repository never publish a BULLISH or BEARISH signal with
   a confidence of 0.65 or less *)

\* one session in which AAPL rises by 10 % and MSFT does not move
SignalTimeline ==
    <<{[s \in Symbols |-> IF s = "AAPL" THEN [open |-> 10000, close |-> 11000]
                                       ELSE FlatRow]}>>

\* the signal messages the client publishes, confidence in percent
ExternalSignals ==
    {[type |-> "signal", signal_id |-> <<"client", 0>>, agent_id |-> "client",
      symbol |-> "AAPL", signal_type |-> signal_type,
      confidence |-> confidence] :
        signal_type \in {"BULLISH", "BEARISH"}, confidence \in {65, 70}}

\* LocalMessageBus.publish("signals", message) called by the client
SignalArrives ==
    /\ Len(accepted) < MaxMessages
    /\ \E m \in ExternalSignals :
          queue' = Append(queue, Envelope("signals", m, 0))
    /\ accepted' = Append(accepted,
                          AcceptedEntry(channels, "signals", Len(accepted) + 1,
                                        "client"))
    /\ UNCHANGED <<channels, running, task, current, todo, closePc, invoked,
                   closedAt, simVars>>

InitSignals ==
    /\ channels = SimChannels
    /\ queue = <<>>
    /\ running = TRUE
    /\ task = "get"
    /\ current = NoMessage
    /\ todo = <<>>
    /\ closePc = "idle"
    /\ accepted = <<>>
    /\ invoked = EmptyDict
    /\ closedAt = 0
    /\ InitSim
    /\ InitOther

MainStartSignals == MainStartOn(SignalTimeline, SymbolOrder)

MainWakeSignals == MainWakeOn(SignalTimeline, SymbolOrder)

NextSignals ==
    \/ MainStartSignals
    \/ MainWakeSignals
    \/ SignalArrives
    \/ LoopGet
    \/ RunAgentCallback
    \/ GatherDone

SpecSignals == InitSignals /\ [][NextSignals]_vars

-----------------------------------------------------------------------------
(* The simulation over a rally day followed by falling days *)

RiseRow == [open |-> 10000, close |-> 11000]

FallRow == [open |-> 11000, close |-> 10000]

\* AAPL rises on the first day and falls on the three days after it
SellOffTimeline ==
    <<{[s \in Symbols |-> IF s = "AAPL" THEN RiseRow ELSE FlatRow]},
      {[s \in Symbols |-> IF s = "AAPL" THEN FallRow ELSE FlatRow]},
      {[s \in Symbols |-> IF s = "AAPL" THEN FallRow ELSE FlatRow]},
      {[s \in Symbols |-> IF s = "AAPL" THEN FallRow ELSE FlatRow]}>>

MainStartSellOff == MainStartOn(SellOffTimeline, SymbolOrder)

MainWakeSellOff == MainWakeOn(SellOffTimeline, SymbolOrder)

InitSellOff ==
    /\ channels = SimChannels
    /\ queue = <<>>
    /\ running = TRUE
    /\ task = "get"
    /\ current = NoMessage
    /\ todo = <<>>
    /\ closePc = "idle"
    /\ accepted = <<>>
    /\ invoked = EmptyDict
    /\ closedAt = 0
    /\ InitSim
    /\ InitOther

NextSellOff ==
    \/ MainStartSellOff
    \/ MainWakeSellOff
    \/ LoopGet
    \/ RunAgentCallback
    \/ GatherDone

SpecSellOff == InitSellOff /\ [][NextSellOff]_vars

-----------------------------------------------------------------------------
(* The simulation of a small account on a day when every symbol of trader_1 *)
(* rallies.  The bus is prompt: run() sleeps until the queue is empty.      *)

\* TradingSimulation(initial_cash=4400.0), in cents
RallyInitialCash == 440000

\* the symbols of trader_1, in the order of the day's data; they are the
\* first of analyst_1's.  The rows of the other symbols are left out.
RallyOrder ==
    <<"AAPL", "MSFT", "GOOGL", "AMZN", "TSLA", "META", "NVDA", "JPM", "V", "JNJ">>

RallyTimeline == <<{[s \in Range(RallyOrder) |-> RiseRow]}>>

MainStartRally == MainStartOn(RallyTimeline, RallyOrder)

\* `await asyncio.sleep(0.1)` ends after the bus has handled what was queued
MainWakeRally ==
    /\ queue = <<>>
    /\ MainWakeOn(RallyTimeline, RallyOrder)

InitRally ==
    /\ channels = SimChannels
    /\ queue = <<>>
    /\ running = TRUE
    /\ task = "get"
    /\ current = NoMessage
    /\ todo = <<>>
    /\ closePc = "idle"
    /\ accepted = <<>>
    /\ invoked = EmptyDict
    /\ closedAt = 0
    /\ analyst = InitAnalyst
    /\ trader = [t \in Traders |->
                    NewTrader(IF t = "trader_1" THEN Range(RallyOrder)
                              ELSE {"DIS"},
                              RallyInitialCash \div 4)]
    /\ rm = [r \in RiskManagers |-> NewRm(RallyInitialCash)]
    /\ market = InitMarket
    /\ mainPc = [day |-> 0, at |-> "start"]
    /\ hist = InitHist
    /\ probe = NoProbe
    /\ InitOther

NextRally ==
    \/ MainStartRally
    \/ MainWakeRally
    \/ LoopGet
    \/ RunAgentCallback
    \/ GatherDone

SpecRally == InitRally /\ [][NextRally]_vars

-----------------------------------------------------------------------------
(* RiskManagerAgent._validate_order on its own: every shadow state, every *)
(* order                                                                    *)

\* the shadow states of a risk manager: the price of AAPL known or not, the
\* shares trader_1 holds of it, the cash seen for trader_1 (none before its
\* first fill), with or without the exposure of other traders
ShadowStates ==
    {[initial_portfolio_value |-> InitialPortfolioValue,
      current_positions |->
         [k \in (IF held > 0 THEN {TraderKey("trader_1", "AAPL")} ELSE {})
                   \cup DOMAIN RmCarrying(carried).current_positions |->
             IF k = TraderKey("trader_1", "AAPL")
             THEN [trader_id |-> "trader_1", symbol |-> "AAPL",
                   quantity |-> held, avg_cost |-> [n |-> 10000, d |-> 1]]
             ELSE RmCarrying(carried).current_positions[k]],
      current_prices |->
         IF known THEN Put(RmCarrying(carried).current_prices, "AAPL", 10000)
         ELSE RmCarrying(carried).current_prices,
      trader_cash |-> IF cash = 0 THEN EmptyDict
                      ELSE Put(EmptyDict, "trader_1", cash),
      approved_count |-> 0, rejected_count |-> 0] :
        held \in {0, 20}, known \in BOOLEAN, cash \in {0, 300000},
        carried \in {{}, {CarriedPosition}}}

ProbeQuantities == {10, 50, 600}

InitValidate ==
    /\ channels = <<>>
    /\ queue = <<>>
    /\ running = FALSE
    /\ task = "none"
    /\ current = NoMessage
    /\ todo = <<>>
    /\ closePc = "idle"
    /\ accepted = <<>>
    /\ invoked = EmptyDict
    /\ closedAt = 0
    /\ InitAgents
    /\ InitOther
    /\ \E s \in ShadowStates : rm = [r \in RiskManagers |-> s]

\* one call of risk_manager_1._validate_order(trader_id, symbol, side,
\* quantity, price)
ValidateProbe ==
    /\ \E symbol \in Symbols, side \in {"BUY", "SELL"},
          quantity \in ProbeQuantities :
          probe' = [out |-> <<ValidateOrder(rm["risk_manager_1"], "trader_1",
                                           symbol, side, quantity, 0)>>,
                    trader_id |-> "trader_1", symbol |-> symbol,
                    side |-> side, quantity |-> quantity]
    /\ UNCHANGED <<busVars, busHist, analyst, trader, rm, market, mainPc, hist,
                   otherVars>>

NextValidate == ValidateProbe

SpecValidate == InitValidate /\ [][NextValidate]_vars


-----------------------------------------------------------------------------
(* A risk manager on its own: fills and quotes reach its handlers, and its
   _run loop makes stop-loss passes *)

MaxFills == 3

\* the trade_executed messages the handler is given
StopLossFills ==
    {TradeExecuted([id |-> <<"trade", "o">>, timestamp |-> 1, order_id |-> "o",
                    symbol |-> symbol, side |-> side, quantity |-> 10,
                    execution_price |-> price,
                    commission |-> (price * 10 * CommissionPerMille) \div 1000,
                    trader_id |-> t]) :
        t \in Traders, symbol \in Symbols, side \in {"BUY", "SELL"},
        price \in {10000, 11000}}

\* the closes the market_update messages carry: 10 % and 5 % below the lower
\* fill price, and the higher fill price
StopLossCloses == {9000, 9500, 11000}

StopLossAgent == "risk_manager_1"

\* no pass of _check_stop_losses was the last step
NoPass == [agent |-> "none", published |-> 0]

InitStopLoss ==
    /\ channels = <<>>
    /\ queue = <<>>
    /\ running = TRUE
    /\ task = "get"
    /\ current = NoMessage
    /\ todo = <<>>
    /\ closePc = "idle"
    /\ accepted = <<>>
    /\ invoked = EmptyDict
    /\ closedAt = 0
    /\ analyst = InitAnalyst
    /\ trader = InitTrader
    /\ market = InitMarket
    /\ mainPc = [day |-> 0, at |-> "start"]
    /\ hist = InitHist
    /\ InitOther
    /\ rm = InitRm
    /\ probe = [out |-> <<>>, fills |-> 0, pass |-> NoPass]

\* a trade_executed message is delivered to _on_trade_executed
StopLossFill ==
    /\ probe.fills < MaxFills
    /\ \E m \in StopLossFills : RmOnTradeExecuted(StopLossAgent, m)
    /\ probe' = [probe EXCEPT !.fills = @ + 1, !.pass = NoPass]
    /\ UNCHANGED <<channels, running, task, current, todo, closePc, busHist,
                   mainPc, otherVars>>

\* a market_update message is delivered to _on_market_update
StopLossQuote ==
    /\ \E symbol \in Symbols, close \in StopLossCloses :
          RmOnMarketUpdate(StopLossAgent,
              [type |-> "market_update", symbol |-> symbol, close |-> close])
    /\ probe' = [probe EXCEPT !.pass = NoPass]
    /\ UNCHANGED <<channels, running, task, current, todo, closePc, busHist,
                   mainPc, otherVars>>

\* _run: one pass of _check_stop_losses; the bus has delivered what the pass
\* before it published (the passes are 2 s apart)
CheckStopLosses ==
    /\ queue = <<>>
    /\ \E keys \in Orderings(DOMAIN rm[StopLossAgent].current_positions) :
          LET out == StopLossAlerts(rm[StopLossAgent], keys)
          IN  /\ queue' = queue \o
                    [i \in DOMAIN out |-> Envelope("stop_loss_alerts", out[i], 0)]
              /\ probe' = [probe EXCEPT !.pass = [agent |-> StopLossAgent,
                                                  published |-> Len(out)]]
    /\ UNCHANGED <<channels, running, task, current, todo, closePc, busHist,
                   analyst, trader, rm, market, mainPc, hist, otherVars>>

\* _process_messages takes an alert off the queue; no agent modelled here
\* subscribes to stop_loss_alerts
StopLossDeliver ==
    /\ queue # <<>>
    /\ queue' = Tail(queue)
    /\ probe' = [probe EXCEPT !.pass = NoPass]
    /\ UNCHANGED <<channels, running, task, current, todo, closePc, busHist,
                   analyst, trader, rm, market, mainPc, hist, otherVars>>

NextStopLoss ==
    \/ StopLossFill
    \/ StopLossQuote
    \/ CheckStopLosses
    \/ StopLossDeliver

SpecStopLoss == InitStopLoss /\ [][NextStopLoss]_vars

-----------------------------------------------------------------------------
(* The MarketEnvironment under the run loop: approved orders arrive at any
   time, the loop advances three sessions and sweeps after each *)

MaxOrders == 2

\* data_by_date: AAPL has no record in the second session and MSFT none in
\* the first
MarketTimeline ==
    <<{[s \in {"AAPL"} |-> [open |-> 10000, close |-> 11000]]},
      {[s \in {"MSFT"} |-> [open |-> 10000, close |-> 10000]]},
      {[s \in Symbols |-> IF s = "AAPL" THEN [open |-> 11000, close |-> 10000]
                                       ELSE [open |-> 10000, close |-> 12000]]}>>

\* the limit prices of the orders
LimitPrices == {10500, 11500}

\* the orders submitted so far: each is pending or has its Trade
Submitted == Len(market.pending_orders) + Len(market.executed_trades)

\* the order_approved messages that reach _on_approved_order
ApprovedOrders ==
    {OrderApproved([id |-> <<"order", Submitted + 1>>, trader_id |-> "trader_1",
                    symbol |-> symbol, side |-> side, quantity |-> 10,
                    price |-> price]) :
        symbol \in Symbols, side \in {"BUY", "SELL"}, price \in LimitPrices}

InitMarketRun ==
    /\ channels = <<>>
    /\ queue = <<>>
    /\ running = TRUE
    /\ task = "get"
    /\ current = NoMessage
    /\ todo = <<>>
    /\ closePc = "idle"
    /\ accepted = <<>>
    /\ invoked = EmptyDict
    /\ closedAt = 0
    /\ InitSim
    /\ InitOther

MarketStart == MainStartOn(MarketTimeline, SymbolOrder)

MarketWake == MainWakeOn(MarketTimeline, SymbolOrder)

\* an order_approved message is delivered to _on_approved_order
MarketSubmit ==
    /\ mainPc.at # "start"
    /\ Submitted < MaxOrders
    /\ \E m \in ApprovedOrders : SimOnApprovedOrder(m)
    /\ UNCHANGED <<channels, running, task, current, todo, closePc, busHist,
                   mainPc, probe, otherVars>>

\* _process_messages takes a message off the queue; its subscribers are not
\* modelled here
MarketDeliver ==
    /\ queue # <<>>
    /\ queue' = Tail(queue)
    /\ UNCHANGED <<channels, running, task, current, todo, closePc, busHist,
                   simVars>>

NextMarketRun ==
    \/ MarketStart
    \/ MarketWake
    \/ MarketSubmit
    \/ MarketDeliver

SpecMarketRun == InitMarketRun /\ [][NextMarketRun]_vars

-----------------------------------------------------------------------------
(* The MarketEnvironment under the run loop, with submit_order called on
   orders of any status *)

\* the statuses of the orders handed to submit_order
SubmittedStatuses == {"PENDING", "APPROVED", "REJECTED"}

\* the orders handed to submit_order by its n-th call
SubmittedOrders(n) ==
    {[id |-> <<"order", n>>, trader_id |-> "trader_1", symbol |-> symbol,
      side |-> side, quantity |-> 10, price |-> price, status |-> status] :
        symbol \in Symbols, side \in {"BUY", "SELL"}, price \in LimitPrices,
        status \in SubmittedStatuses}

\* probe.calls counts the calls of submit_order, probe.accepted lists the ids
\* of the orders that were APPROVED when they were submitted
InitConserve ==
    /\ channels = <<>>
    /\ queue = <<>>
    /\ running = TRUE
    /\ task = "get"
    /\ current = NoMessage
    /\ todo = <<>>
    /\ closePc = "idle"
    /\ accepted = <<>>
    /\ invoked = EmptyDict
    /\ closedAt = 0
    /\ analyst = InitAnalyst
    /\ trader = InitTrader
    /\ market = InitMarket
    /\ mainPc = [day |-> 0, at |-> "start"]
    /\ hist = InitHist
    /\ InitOther
    /\ rm = InitRm
    /\ probe = [out |-> <<>>, calls |-> 0, accepted |-> <<>>]

\* await market_env.submit_order(order)
SubmitOrderCall ==
    /\ mainPc.at # "start"
    /\ probe.calls < MaxOrders + 1
    /\ \E order \in SubmittedOrders(probe.calls + 1) :
          /\ market' = SubmitOrder(market, order)
          /\ probe' = [probe EXCEPT
                           !.calls = @ + 1,
                           !.accepted = IF order.status = "APPROVED"
                                        THEN Append(@, order.id) ELSE @]
    /\ UNCHANGED <<busVars, busHist, analyst, trader, rm, mainPc, hist,
                   otherVars>>

NextConserve ==
    \/ MarketStart
    \/ MarketWake
    \/ SubmitOrderCall
    \/ MarketDeliver

SpecConserve == InitConserve /\ [][NextConserve]_vars

-----------------------------------------------------------------------------
(* The trade handlers on payloads that lack a field: message.get(key) yields
   None, and the statement that computes with it raises TypeError, which
   ends the handler where it stands *)

MaxDeliveries == 2

\* message.get(key) finds the key
Has(m, key) == key \in DOMAIN m

\* the payload m without the fields in `dropped`
Without(m, dropped) == [k \in DOMAIN m \ dropped |-> m[k]]

\* the dict key that message.get("symbol") yields when the field is missing
NoneKey == "None"

\* m with what get() yields for a missing symbol, and the default 0.0 of
\* message.get("commission", 0.0)
Defaulted(m) ==
    [k \in DOMAIN m \cup {"symbol", "commission"} |->
        IF k \in DOMAIN m THEN m[k] ELSE IF k = "symbol" THEN NoneKey ELSE 0]

\* TraderAgent._on_trade_executed, statement by statement: the fields of the
\* trader afterwards and whether the handler raised
TraderFill(s, m) ==
    LET i == IF m.type = "trade_executed"
             THEN FirstWithId(s.pending_orders, m.order_id) ELSE 0
        d == Defaulted(m)
        held == Get(s.positions, d.symbol, 0)
        sign == IF m.side = "BUY" THEN 1 ELSE -1
    IN  IF i = 0 THEN [state |-> s, raised |-> FALSE]
        \* self.positions[symbol] = self.positions.get(symbol, 0) +/- quantity
        ELSE IF ~Has(m, "quantity") THEN [state |-> s, raised |-> TRUE]
        ELSE LET moved == [s EXCEPT !.positions =
                               Put(@, d.symbol, held + sign * m.quantity)]
             \* self.cash -= (execution_price * quantity + commission)
             IN  IF ~Has(m, "execution_price")
                 THEN [state |-> moved, raised |-> TRUE]
                 ELSE [state |->
                          [moved EXCEPT
                             !.cash = @ - sign * (m.execution_price * m.quantity)
                                        - d.commission,
                             !.pending_orders = RemoveAt(@, i)],
                       raised |-> FALSE]

\* RiskManagerAgent._on_trade_executed, statement by statement
ShadowFill(s, m) ==
    LET d == Defaulted(m)
        key == TraderKey(m.trader_id, d.symbol)
        \* if trader_key not in self.current_positions: the empty entry
        entered == IF key \in DOMAIN s.current_positions THEN s
                   ELSE [s EXCEPT !.current_positions = Put(@, key,
                            [trader_id |-> m.trader_id, symbol |-> d.symbol,
                             quantity |-> 0, avg_cost |-> [n |-> 0, d |-> 1]])]
        position == entered.current_positions[key]
    IN  IF m.type # "trade_executed" THEN [state |-> s, raised |-> FALSE]
        ELSE IF m.side = "BUY"
        \* total_cost = quantity * avg_cost + quantity * execution_price
        THEN IF ~Has(m, "quantity") \/ ~Has(m, "execution_price")
             THEN [state |-> entered, raised |-> TRUE]
             ELSE [state |-> ShadowAfterTrade(s, d), raised |-> FALSE]
        \* position["quantity"] -= quantity
        ELSE IF ~Has(m, "quantity") THEN [state |-> entered, raised |-> TRUE]
        \* ... execution_price * quantity - commission
        ELSE IF ~Has(m, "execution_price")
        THEN [state |->
                 [entered EXCEPT !.current_positions =
                     IF position.quantity - m.quantity <= 0 THEN Del(@, key)
                     ELSE Put(@, key, [position EXCEPT !.quantity = @ - m.quantity])],
              raised |-> TRUE]
        ELSE [state |-> ShadowAfterTrade(s, d), raised |-> FALSE]

\* trader_1 after the fill of its first BUY of 54 AAPL at 110.00, with a
\* second BUY and a SELL of half its shares approved and pending
HoldingTrader ==
    [NewTrader({"AAPL"}, InitialPortfolioValue \div 4) EXCEPT
        !.cash = @ - (11000 * 54 + 594),
        !.positions = Put(@, "AAPL", 54),
        !.current_prices = Put(@, "AAPL", 11000),
        !.order_count = 3,
        !.pending_orders =
            <<[NewOrder("trader_1", 2, "AAPL", "BUY", 54, 11110, <<"analyst_1", 2>>)
                 EXCEPT !.status = "APPROVED"],
              [NewOrder("trader_1", 3, "AAPL", "SELL", 27, 10890, <<"analyst_1", 3>>)
                 EXCEPT !.status = "APPROVED"]>>]

\* the trade_executed payloads of the two pending orders at 110.00, whole
\* or with one field missing
FillPayloads ==
    {Without([type |-> "trade_executed", trade_id |-> <<"trade", <<"trader_1", n>>>>,
              order_id |-> <<"trader_1", n>>, symbol |-> "AAPL",
              side |-> IF n = 2 THEN "BUY" ELSE "SELL",
              quantity |-> IF n = 2 THEN 54 ELSE 27,
              execution_price |-> 11000,
              commission |-> IF n = 2 THEN 594 ELSE 297,
              trader_id |-> "trader_1"], dropped) :
        n \in {2, 3},
        dropped \in {{}, {"symbol"}, {"quantity"}, {"execution_price"},
                     {"commission"}}}

\* the first fill of trader_1; both approvals of the order were executed, so
\* every risk manager has booked it twice
FirstFillMessage ==
    [type |-> "trade_executed", trade_id |-> <<"trade", <<"trader_1", 1>>>>,
     order_id |-> <<"trader_1", 1>>, symbol |-> "AAPL", side |-> "BUY",
     quantity |-> 54, execution_price |-> 11000, commission |-> 594,
     trader_id |-> "trader_1"]

InitMalformed ==
    /\ channels = <<>>
    /\ queue = <<>>
    /\ running = TRUE
    /\ task = "get"
    /\ current = NoMessage
    /\ todo = <<>>
    /\ closePc = "idle"
    /\ accepted = <<>>
    /\ invoked = EmptyDict
    /\ closedAt = 0
    /\ analyst = InitAnalyst
    /\ trader = [t \in Traders |->
                    IF t = "trader_1" THEN HoldingTrader ELSE InitTrader[t]]
    /\ rm = [r \in RiskManagers |->
                [ShadowAfterTrade(
                     ShadowAfterTrade(NewRm(InitialPortfolioValue), FirstFillMessage),
                     FirstFillMessage)
                   EXCEPT !.current_prices = Put(@, "AAPL", 11000)]]
    /\ market = InitMarket
    /\ mainPc = [day |-> 1, at |-> "sleep"]
    /\ hist = InitHist
    /\ probe = [out |-> <<>>, n |-> 0, raised |-> FALSE]
    /\ InitOther

\* gather runs TraderAgent._on_trade_executed of t on a payload
DeliverFillToTrader ==
    /\ probe.n < MaxDeliveries
    /\ \E t \in Traders, m \in FillPayloads :
          LET after == TraderFill(trader[t], m)
          IN  /\ trader' = [trader EXCEPT ![t] = after.state]
              /\ probe' = [probe EXCEPT !.n = @ + 1, !.raised = after.raised]
    /\ UNCHANGED <<busVars, busHist, analyst, rm, market, mainPc, hist,
                   otherVars>>

\* gather runs RiskManagerAgent._on_trade_executed of r on a payload
DeliverFillToRm ==
    /\ probe.n < MaxDeliveries
    /\ \E r \in RiskManagers, m \in FillPayloads :
          LET after == ShadowFill(rm[r], m)
          IN  /\ rm' = [rm EXCEPT ![r] = after.state]
              /\ probe' = [probe EXCEPT !.n = @ + 1, !.raised = after.raised]
    /\ UNCHANGED <<busVars, busHist, analyst, trader, market, mainPc, hist,
                   otherVars>>

NextMalformed ==
    \/ DeliverFillToTrader
    \/ DeliverFillToRm

SpecMalformed == InitMalformed /\ [][NextMalformed]_vars

-----------------------------------------------------------------------------
(* The run loop with advance_time in its steps: one write of current_prices
   and one publish per symbol.  With the RedisMessageBus a publish suspends
   run(), so the other tasks may run between two writes; the steps of the
   run loop are therefore taken in any state of the delivery task *)

\* both symbols have a record in each session and both move
AdvanceTimeline ==
    <<{[s \in Symbols |-> [open |-> 10000, close |-> 11000]]},
      {[s \in Symbols |-> [open |-> 11000, close |-> 10000]]}>>

InitAdvance ==
    /\ channels = SimChannels
    /\ queue = <<>>
    /\ running = TRUE
    /\ task = "get"
    /\ current = NoMessage
    /\ todo = <<>>
    /\ closePc = "idle"
    /\ accepted = <<>>
    /\ invoked = EmptyDict
    /\ closedAt = 0
    /\ analyst = InitAnalyst
    /\ trader = InitTrader
    /\ market = InitMarket
    /\ mainPc = [day |-> 0, at |-> "start", k |-> 0, rows |-> EmptyDict,
                 before |-> EmptyDict]
    /\ hist = InitHist
    /\ probe = NoProbe
    /\ rm = InitRm
    /\ InitOther

\* (mutant) advance_time returns after its first write
AdvanceDoneEarly(k, order) == k > 1

\* advance_time: `for symbol, market_data in day_data.items()` is exhausted
AdvanceDone(k, order) == k > Len(order)

\* run(): advance_time(trading_day) is called; current_time is set
AdvanceBegin ==
    /\ mainPc.at \in {"start", "swept"}
    /\ mainPc.day < Len(AdvanceTimeline)
    /\ \E rows \in AdvanceTimeline[mainPc.day + 1] :
          mainPc' = [day |-> mainPc.day + 1, at |-> "advance", k |-> 1,
                     rows |-> rows, before |-> market.current_prices]
    /\ market' = [market EXCEPT !.current_time = mainPc.day + 1]
    /\ UNCHANGED <<busVars, busHist, analyst, trader, rm, hist, probe,
                   otherVars>>

\* advance_time: one turn of its loop, the write of a symbol's close and the
\* publish of its market_update
AdvanceWrite ==
    /\ mainPc.at = "advance"
    /\ ~AdvanceDone(mainPc.k, SymbolOrder)
    /\ LET symbol == SymbolOrder[mainPc.k]
       IN  IF symbol \in DOMAIN mainPc.rows
           THEN /\ market' = [market EXCEPT !.current_prices =
                                  Put(@, symbol, mainPc.rows[symbol].close)]
                /\ queue' = queue \o AdvanceMessages(mainPc.rows, <<symbol>>)
           ELSE UNCHANGED <<market, queue>>
    /\ mainPc' = [mainPc EXCEPT !.k = @ + 1]
    /\ UNCHANGED <<channels, running, task, current, todo, closePc, busHist,
                   analyst, trader, rm, hist, probe, otherVars>>

\* advance_time returns and run() sleeps 0.1 s
AdvanceReturn ==
    /\ mainPc.at = "advance"
    /\ AdvanceDone(mainPc.k, SymbolOrder)
    /\ mainPc' = [mainPc EXCEPT !.at = "sleep"]
    /\ UNCHANGED <<busVars, busHist, analyst, trader, rm, market, hist, probe,
                   otherVars>>

\* run() after its sleep: execute_pending_orders() and, every tenth day,
\* get_all_current_prices() and the portfolio_update
WakeSweep ==
    /\ mainPc.at = "sleep"
    /\ market' = AfterSweep(market)
    /\ queue' = queue \o SweepMessages(market) \o
                 (IF (mainPc.day - 1) % 10 = 0
                  THEN <<Envelope("portfolio_update",
                            [type |-> "portfolio_snapshot", date |-> mainPc.day,
                             total_value |-> PortfolioValue], 0)>>
                  ELSE <<>>)
    /\ mainPc' = [mainPc EXCEPT !.at = IF mainPc.day < Len(AdvanceTimeline)
                                       THEN "swept" ELSE "finished"]
    /\ UNCHANGED <<channels, running, task, current, todo, closePc, busHist,
                   analyst, trader, rm, hist, probe, otherVars>>

NextAdvance ==
    \/ AdvanceBegin
    \/ AdvanceWrite
    \/ AdvanceReturn
    \/ WakeSweep
    \/ LoopGet
    \/ RunAgentCallback
    \/ GatherDone

SpecAdvance == InitAdvance /\ [][NextAdvance]_vars

-----------------------------------------------------------------------------
(* RedisMessageBus after connect(): one pubsub connection shared by the     *)
(* _listen task of every channel                                            *)

\* the handlers subscribed; "raises" raises whenever it is awaited
RedisHandlers == {"h1", "h2", "raises"}

\* RedisMessageBus after connect().  stream holds what the Redis server has
\* sent on the pubsub connection and no listener has read yet; published and
\* delivered are history.
InitRedisBus ==
    [made |-> TRUE, subscribers |-> <<>>, tasks |-> <<>>, stream |-> <<>>,
     published |-> <<>>, delivered |-> EmptyDict]

\* RedisMessageBus.subscribe: the first subscription of a channel subscribes
\* the pubsub connection to it and creates a _listen(channel) task
RedisSubscribe ==
    \E channel \in BusTopics, callback \in RedisHandlers :
        /\ Len(Subscribers(redis.subscribers, "T1"))
              + Len(Subscribers(redis.subscribers, "T2")) < MaxSubscriptions
        /\ redis' = [redis EXCEPT
              !.tasks = IF channel \in DOMAIN redis.subscribers THEN @
                        ELSE Append(@, channel),
              !.subscribers = SubscribeTo(@, channel, callback)]
        /\ UNCHANGED <<busVars, busHist, analyst, trader, rm, market, mainPc,
                       hist, probe, lifecycle, portfolio>>

\* RedisMessageBus.publish: the server sends the message to the pubsub
\* connection when the connection is subscribed to the channel
RedisPublish ==
    \E channel \in BusTopics :
        LET message == [channel |-> channel, seq |-> Len(redis.published) + 1]
        IN  /\ Len(redis.published) < MaxMessages
            /\ redis' = [redis EXCEPT
                  !.published = Append(@, message),
                  !.stream = IF channel \in DOMAIN redis.subscribers
                             THEN Append(@, message) ELSE @]
            /\ UNCHANGED <<busVars, busHist, analyst, trader, rm, market,
                           mainPc, hist, probe, lifecycle, portfolio>>

\* history: the callbacks of channel are awaited with message one after
\* the other inside one try block, so the first that raises ends the loop
DeliverTo(delivered, subscribers, channel, message) ==
    LET callbacks == Subscribers(subscribers, channel)
        regs == {<<channel, i>> : i \in
                    {i \in DOMAIN callbacks :
                        \A j \in 1..(i - 1) : callbacks[j] # "raises"}}
    IN  [r \in DOMAIN delivered \cup regs |->
            IF r \in regs THEN Append(Invocations(delivered, r), message)
            ELSE delivered[r]]

\* RedisMessageBus._listen(channel): the task's `async for message in
\* self.pubsub.listen()` yields the next message read from the shared
\* connection, whatever its channel, and the task awaits the callbacks of
\* its own channel with it.  Which of the tasks reads the next message is
\* not determined by the code.
RedisListen ==
    \E t \in DOMAIN redis.tasks :
        /\ redis.stream # <<>>
        /\ redis' = [redis EXCEPT
              !.stream = Tail(@),
              !.delivered = DeliverTo(@, redis.subscribers, redis.tasks[t],
                                      Head(redis.stream))]
        /\ UNCHANGED <<busVars, busHist, analyst, trader, rm, market, mainPc,
                       hist, probe, lifecycle, portfolio>>

InitIdleBus ==
    /\ channels = <<>>
    /\ queue = <<>>
    /\ running = FALSE
    /\ task = "none"
    /\ current = NoMessage
    /\ todo = <<>>
    /\ closePc = "idle"
    /\ accepted = <<>>
    /\ invoked = EmptyDict
    /\ closedAt = 0

InitRedis ==
    /\ InitIdleBus
    /\ InitSim
    /\ redis = InitRedisBus
    /\ lifecycle = NoObject
    /\ portfolio = NoObject

NextRedis ==
    \/ RedisSubscribe
    \/ RedisPublish
    \/ RedisListen

SpecRedis == InitRedis /\ [][NextRedis]_vars

-----------------------------------------------------------------------------
(* BaseAgent.start and stop, called by two callers that may interleave at   *)
(* the await points                                                         *)

\* Bound: the number of start() and stop() calls
MaxCalls == 3

Callers == {"c1", "c2"}

\* _setup_subscriptions of the agent: (channel, handler) in the order of the
\* subscribe calls (those of RiskManagerAgent)
AgentSubscriptions ==
    <<<<"orders", "_on_order_request">>, <<"market_data", "_on_market_update">>,
      <<"trades", "_on_trade_executed">>>>

\* BaseAgent.__init__; tasks holds every task create_task made (_task is the
\* last one), registered the bus's channels; pc, calls, results and stopped
\* follow the calls
InitLifecycle ==
    [made |-> TRUE, running |-> FALSE, tasks |-> <<>>, registered |-> <<>>,
     pc |-> [c \in Callers |-> [op |-> "idle", i |-> 0]],
     calls |-> 0, starts |-> 0, stops |-> 0, results |-> <<>>,
     stopped |-> FALSE]

Starting(l) == \E c \in Callers : l.pc[c].op = "start"

\* (mutant) start() without the _running test
StartNeverNoOp(l) == FALSE

\* start(): `if self._running: ... return`
StartIsNoOp(l) == l.running

\* start() up to its first await: the _running test and assignment
StartEnter ==
    \E c \in Callers :
        /\ lifecycle.pc[c].op = "idle"
        /\ lifecycle.calls < MaxCalls
        /\ lifecycle' =
              IF StartIsNoOp(lifecycle)
              THEN [lifecycle EXCEPT !.calls = @ + 1, !.starts = @ + 1,
                                     !.results = Append(@, "returned")]
              ELSE [lifecycle EXCEPT !.calls = @ + 1, !.starts = @ + 1,
                                     !.running = TRUE, !.stopped = FALSE,
                                     !.pc[c] = [op |-> "start", i |-> 1]]
        /\ UNCHANGED <<busVars, busHist, analyst, trader, rm, market, mainPc,
                       hist, probe, redis, portfolio>>

\* start(): one `await self.subscribe(...)` of _setup_subscriptions
StartSubscribe ==
    \E c \in Callers :
        /\ lifecycle.pc[c].op = "start"
        /\ lifecycle.pc[c].i <= Len(AgentSubscriptions)
        /\ lifecycle' = [lifecycle EXCEPT
              !.registered = SubscribeTo(@,
                                AgentSubscriptions[lifecycle.pc[c].i][1],
                                AgentSubscriptions[lifecycle.pc[c].i][2]),
              !.pc[c].i = @ + 1]
        /\ UNCHANGED <<busVars, busHist, analyst, trader, rm, market, mainPc,
                       hist, probe, redis, portfolio>>

\* start(): self._task = asyncio.create_task(self._run()), and the return
StartCreateTask ==
    \E c \in Callers :
        /\ lifecycle.pc[c].op = "start"
        /\ lifecycle.pc[c].i > Len(AgentSubscriptions)
        /\ lifecycle' = [lifecycle EXCEPT
              !.tasks = Append(@, "pending"),
              !.results = Append(@, "returned"),
              !.pc[c] = [op |-> "idle", i |-> 0]]
        /\ UNCHANGED <<busVars, busHist, analyst, trader, rm, market, mainPc,
                       hist, probe, redis, portfolio>>

\* _run: `while self._running` finds it false and the task returns
TaskExit ==
    \E t \in DOMAIN lifecycle.tasks :
        /\ lifecycle.tasks[t] = "pending"
        /\ ~lifecycle.running
        /\ lifecycle' = [lifecycle EXCEPT !.tasks[t] = "finished"]
        /\ UNCHANGED <<busVars, busHist, analyst, trader, rm, market, mainPc,
                       hist, probe, redis, portfolio>>

\* task.cancel(): a task that is not done is asked to cancel
Cancel(state) == IF state = "pending" THEN "cancelling" ELSE state

\* stop() up to its await: _running = False, self._task.cancel()
StopEnter ==
    \E c \in Callers :
        /\ lifecycle.pc[c].op = "idle"
        /\ lifecycle.calls < MaxCalls
        /\ lifecycle' =
              IF lifecycle.tasks = <<>>
              THEN [lifecycle EXCEPT !.calls = @ + 1, !.stops = @ + 1,
                                     !.running = FALSE,
                                     !.results = Append(@, "returned"),
                                     !.stopped = ~Starting(lifecycle)]
              ELSE [lifecycle EXCEPT !.calls = @ + 1, !.stops = @ + 1,
                                     !.running = FALSE,
                                     !.tasks[Len(lifecycle.tasks)] = Cancel(@),
                                     !.pc[c] = [op |-> "stop", i |-> 0]]
        /\ UNCHANGED <<busVars, busHist, analyst, trader, rm, market, mainPc,
                       hist, probe, redis, portfolio>>

\* the task asked to cancel gets CancelledError at its sleep and ends
TaskCancelled ==
    \E t \in DOMAIN lifecycle.tasks :
        /\ lifecycle.tasks[t] = "cancelling"
        /\ lifecycle' = [lifecycle EXCEPT !.tasks[t] = "cancelled"]
        /\ UNCHANGED <<busVars, busHist, analyst, trader, rm, market, mainPc,
                       hist, probe, redis, portfolio>>

\* what `await self._task` raises for a task that is done
AwaitRaises(state) == IF state = "cancelled" THEN "CancelledError" ELSE "nothing"

\* (mutant) stop() without its except clause
StopSwallowsNothing(error) == error = "nothing"

\* stop(): `except asyncio.CancelledError: pass`
StopSwallows(error) == error \in {"nothing", "CancelledError"}

\* stop(): `await self._task` is over, and the return
StopReturn ==
    \E c \in Callers :
        LET state == lifecycle.tasks[Len(lifecycle.tasks)]
        IN  /\ lifecycle.pc[c].op = "stop"
            /\ state \in {"cancelled", "finished"}
            /\ lifecycle' = [lifecycle EXCEPT
                  !.results = Append(@, IF StopSwallows(AwaitRaises(state))
                                        THEN "returned" ELSE "raised"),
                  !.stopped = ~Starting(lifecycle),
                  !.pc[c] = [op |-> "idle", i |-> 0]]
            /\ UNCHANGED <<busVars, busHist, analyst, trader, rm, market,
                           mainPc, hist, probe, redis, portfolio>>

InitAgent ==
    /\ InitIdleBus
    /\ InitSim
    /\ redis = NoObject
    /\ lifecycle = InitLifecycle
    /\ portfolio = NoObject

NextAgent ==
    \/ StartEnter
    \/ StartSubscribe
    \/ StartCreateTask
    \/ TaskExit
    \/ StopEnter
    \/ TaskCancelled
    \/ StopReturn

SpecAgent == InitAgent /\ [][NextAgent]_vars

-----------------------------------------------------------------------------
(* TradingSimulation.shutdown(): stop() on every agent in turn, then close()
   on the bus, while the delivery loop of the bus goes on with what is
   queued.  lifecycle is the agent that shutdown() is at. *)

\* Bound: the number of agents in self.agents
MaxAgents == 2

\* an agent after initialize(): its start() has returned
StartedAgent ==
    [InitLifecycle EXCEPT
        !.running = TRUE, !.tasks = <<"pending">>,
        !.registered =
            SubscribeTo(
                SubscribeTo(
                    SubscribeTo(<<>>, AgentSubscriptions[1][1],
                                AgentSubscriptions[1][2]),
                    AgentSubscriptions[2][1], AgentSubscriptions[2][2]),
                AgentSubscriptions[3][1], AgentSubscriptions[3][2]),
        !.calls = 1, !.starts = 1, !.results = <<"returned">>]

\* the callbacks registered on T1, in every order
ShutdownCallbacks ==
    UNION {[1..n -> BusCallbacks] : n \in 1..MaxSubscriptions}

\* the bus when shutdown() begins: started, its loop waiting in queue.get(),
\* up to MaxMessages messages accepted, none or all of them still queued
InitShutdown ==
    /\ \E callbacks \in ShutdownCallbacks, n \in 0..MaxMessages,
          left \in BOOLEAN :
          /\ channels = [c \in {"T1"} |-> callbacks]
          /\ accepted = [i \in 1..n |-> AcceptedEntry(channels, "T1", i, "caller")]
          /\ queue = IF left THEN [i \in 1..n |-> Envelope("T1", TestData, i)]
                     ELSE <<>>
    /\ running = TRUE
    /\ task = "get"
    /\ current = NoMessage
    /\ todo = <<>>
    /\ closePc = "idle"
    /\ invoked = EmptyDict
    /\ closedAt = 0
    /\ analyst = InitAnalyst
    /\ trader = InitTrader
    /\ rm = InitRm
    /\ market = InitMarket
    /\ hist = InitHist
    /\ probe = NoProbe
    /\ mainPc = [agent |-> 1, at |-> "stopping"]
    /\ redis = NoObject
    /\ lifecycle = StartedAgent
    /\ portfolio = NoObject

\* `await agent.stop()`: the call
ShutdownStop ==
    /\ mainPc.at = "stopping"
    /\ lifecycle.stops = 0
    /\ StopEnter

\* `for agent in self.agents`: stop() has returned, on to the next agent or
\* to the bus; an error of stop() ends shutdown()
ShutdownNext ==
    /\ mainPc.at = "stopping"
    /\ lifecycle.stops = 1
    /\ \A c \in Callers : lifecycle.pc[c].op = "idle"
    /\ IF lifecycle.results[Len(lifecycle.results)] = "raised"
       THEN /\ mainPc' = [mainPc EXCEPT !.at = "raised"]
            /\ UNCHANGED lifecycle
       ELSE IF mainPc.agent < MaxAgents
       THEN /\ mainPc' = [mainPc EXCEPT !.agent = @ + 1]
            /\ lifecycle' = StartedAgent
       ELSE /\ mainPc' = [mainPc EXCEPT !.at = "closing"]
            /\ UNCHANGED lifecycle
    /\ UNCHANGED <<busVars, busHist, analyst, trader, rm, market, hist, probe,
                   redis, portfolio>>

\* `await self.message_bus.close()`: the call
ShutdownClose ==
    /\ mainPc.at = "closing"
    /\ BusClose

\* close() has returned: "Simulation shutdown complete"
ShutdownReturn ==
    /\ mainPc.at = "closing"
    /\ closePc = "returned"
    /\ mainPc' = [mainPc EXCEPT !.at = "complete"]
    /\ UNCHANGED <<busVars, busHist, analyst, trader, rm, market, hist, probe,
                   otherVars>>

NextShutdown ==
    \/ ShutdownStop
    \/ TaskCancelled
    \/ StopReturn
    \/ ShutdownNext
    \/ ShutdownClose
    \/ BusCloseReturn
    \/ ShutdownReturn
    \/ LoopGet
    \/ RunTestCallback
    \/ GatherDone
    \/ LoopExit

\* the event loop runs every coroutine that is ready: a cancelled task gets
\* its CancelledError, an awaiting caller is resumed when what it awaits is
\* done, wait_for times out after 0.1 s, and every callback invocation
\* comes to its end
FairShutdown ==
    /\ WF_vars(ShutdownStop)
    /\ WF_vars(TaskCancelled)
    /\ WF_vars(StopReturn)
    /\ WF_vars(ShutdownNext)
    /\ WF_vars(ShutdownClose)
    /\ WF_vars(BusCloseReturn)
    /\ WF_vars(ShutdownReturn)
    /\ WF_vars(LoopGet)
    /\ WF_vars(RunTestCallback)
    /\ WF_vars(GatherDone)
    /\ WF_vars(LoopExit)

SpecShutdown == InitShutdown /\ [][NextShutdown]_vars /\ FairShutdown

-----------------------------------------------------------------------------
(* Portfolio: execute_trade and update_price.  Money is whole units; avg_cost *)
(* and the PnL figures are exact fractions [n, d] with d > 0                  *)

\* Bound: the number of execute_trade calls
MaxTrades == 3

\* the arguments the calls are made with
PortfolioCash == {0, 50}
PortfolioSymbols == {"AAPL", "MSFT"}
PortfolioPrices == {10, 20}
PortfolioTrades ==
    [symbol : PortfolioSymbols, side : {"BUY", "SELL"}, quantity : {1, 2},
     execution_price : PortfolioPrices, commission : {0, 25}]

RatAdd(a, b) == Ratio(a.n * b.d + b.n * a.d, a.d * b.d)

RECURSIVE RatSumOver(_, _, _)
\* the sum of the fractions f[k] for k in keys
RatSumOver(f, keys, acc) ==
    IF keys = {} THEN acc
    ELSE LET k == CHOOSE x \in keys : TRUE
         IN  RatSumOver(f, keys \ {k}, RatAdd(acc, f[k]))

\* (current_price - avg_cost) * quantity
UnrealizedPnl(current_price, avg_cost, quantity) ==
    Ratio((current_price * avg_cost.d - avg_cost.n) * quantity, avg_cost.d)

\* Portfolio.__init__; calls and last follow the execute_trade calls
InitPortfolio(initial_cash) ==
    [made |-> TRUE, initial_cash |-> initial_cash, cash |-> initial_cash,
     positions |-> EmptyDict, realized_pnl |-> [n |-> 0, d |-> 1],
     trades_history |-> <<>>, calls |-> 0,
     last |-> [trade |-> "none", result |-> FALSE],
     read |-> [call |-> "none"]]

\* Position.update_price
PositionUpdatePrice(position, new_price) ==
    [position EXCEPT !.current_price = new_price,
                     !.unrealized_pnl =
                         UnrealizedPnl(new_price, position.avg_cost,
                                       position.quantity)]

\* Portfolio.update_price
UpdatePrice ==
    \E symbol \in PortfolioSymbols, current_price \in PortfolioPrices :
        /\ portfolio' =
              IF symbol \in DOMAIN portfolio.positions
              THEN [portfolio EXCEPT !.positions[symbol] =
                                        PositionUpdatePrice(@, current_price),
                                     !.read = [call |-> "none"]]
              ELSE [portfolio EXCEPT !.read = [call |-> "none"]]
        /\ UNCHANGED <<busVars, busHist, analyst, trader, rm, market, mainPc,
                       hist, probe, redis, lifecycle>>

\* (mutant) _execute_buy without the cash test
NeverInsufficient(total_cost, cash) == FALSE

\* _execute_buy: `if total_cost > self.cash`
InsufficientCash(total_cost, cash) == total_cost > cash

\* (mutant) the mean of the old avg_cost and the fill price
AvgCostUnweighted(position, trade) ==
    Ratio(position.avg_cost.n + trade.execution_price * position.avg_cost.d,
          2 * position.avg_cost.d)

\* _execute_buy: total_cost_basis / position.quantity, quantity already raised
AvgCostAfterBuy(position, trade) ==
    Ratio(position.avg_cost.n * position.quantity
            + trade.execution_price * trade.quantity * position.avg_cost.d,
          position.avg_cost.d * (position.quantity + trade.quantity))

\* _execute_buy: the portfolio after it and what it returns
ExecuteBuy(p, trade) ==
    LET total_cost == trade.execution_price * trade.quantity + trade.commission
    IN  IF InsufficientCash(total_cost, p.cash)
        THEN [portfolio |-> p, result |-> FALSE]
        ELSE LET position ==
                     IF trade.symbol \in DOMAIN p.positions
                     THEN LET old == p.positions[trade.symbol]
                              avg_cost == AvgCostAfterBuy(old, trade)
                              quantity == old.quantity + trade.quantity
                          IN  [symbol |-> trade.symbol, quantity |-> quantity,
                               avg_cost |-> avg_cost,
                               current_price |-> trade.execution_price,
                               unrealized_pnl |->
                                   UnrealizedPnl(trade.execution_price,
                                                 avg_cost, quantity)]
                     ELSE [symbol |-> trade.symbol,
                           quantity |-> trade.quantity,
                           avg_cost |-> [n |-> trade.execution_price, d |-> 1],
                           current_price |-> trade.execution_price,
                           unrealized_pnl |-> [n |-> 0, d |-> 1]]
             IN  [portfolio |->
                      [p EXCEPT !.cash = @ - total_cost,
                                !.positions = Put(@, trade.symbol, position),
                                !.trades_history = Append(@, trade)],
                  result |-> TRUE]

\* (mutant) _execute_sell that keeps a position sold down to nothing
ExecuteSellKeepsPosition(p, trade) ==
    IF trade.symbol \notin DOMAIN p.positions
    THEN [portfolio |-> p, result |-> FALSE]
    ELSE LET position == p.positions[trade.symbol]
             quantity == position.quantity - trade.quantity
         IN  IF trade.quantity > position.quantity
             THEN [portfolio |-> p, result |-> FALSE]
             ELSE [portfolio |->
                       [p EXCEPT
                          !.cash = @ + trade.execution_price * trade.quantity
                                     - trade.commission,
                          !.realized_pnl =
                              RatAdd(@, UnrealizedPnl(trade.execution_price,
                                                      position.avg_cost,
                                                      trade.quantity)),
                          !.positions[trade.symbol] =
                              [position EXCEPT
                                 !.quantity = quantity,
                                 !.current_price = trade.execution_price,
                                 !.unrealized_pnl =
                                     UnrealizedPnl(trade.execution_price,
                                                   position.avg_cost, quantity)],
                          !.trades_history = Append(@, trade)],
                   result |-> TRUE]

\* _execute_sell: the portfolio after it and what it returns
ExecuteSell(p, trade) ==
    IF trade.symbol \notin DOMAIN p.positions
    THEN [portfolio |-> p, result |-> FALSE]
    ELSE LET position == p.positions[trade.symbol]
             proceeds == trade.execution_price * trade.quantity
                           - trade.commission
             pnl == UnrealizedPnl(trade.execution_price, position.avg_cost,
                                  trade.quantity)
             quantity == position.quantity - trade.quantity
         IN  IF trade.quantity > position.quantity
             THEN [portfolio |-> p, result |-> FALSE]
             ELSE [portfolio |->
                       [p EXCEPT
                          !.cash = @ + proceeds,
                          !.realized_pnl = RatAdd(@, pnl),
                          !.positions =
                              IF quantity = 0 THEN Del(@, trade.symbol)
                              ELSE Put(@, trade.symbol,
                                     [position EXCEPT
                                        !.quantity = quantity,
                                        !.current_price = trade.execution_price,
                                        !.unrealized_pnl =
                                            UnrealizedPnl(trade.execution_price,
                                                          position.avg_cost,
                                                          quantity)]),
                          !.trades_history = Append(@, trade)],
                   result |-> TRUE]

\* Portfolio.execute_trade
ExecuteTrade ==
    \E trade \in PortfolioTrades :
        LET done == IF trade.side = "BUY" THEN ExecuteBuy(portfolio, trade)
                    ELSE ExecuteSell(portfolio, trade)
        IN  /\ portfolio.calls < MaxTrades
            /\ portfolio' = [done.portfolio EXCEPT
                                !.calls = @ + 1,
                                !.last = [trade |-> trade,
                                          result |-> done.result],
                                !.read = [call |-> "none"]]
            /\ UNCHANGED <<busVars, busHist, analyst, trader, rm, market,
                           mainPc, hist, probe, redis, lifecycle>>

\* get_total_value() without an argument
GetTotalValue(p) ==
    p.cash + SumOver([s \in DOMAIN p.positions |->
                         p.positions[s].quantity * p.positions[s].current_price],
                     DOMAIN p.positions, 0)

\* get_unrealized_pnl()
GetUnrealizedPnl(p) ==
    RatSumOver([s \in DOMAIN p.positions |-> p.positions[s].unrealized_pnl],
               DOMAIN p.positions, [n |-> 0, d |-> 1])

\* get_total_pnl()
GetTotalPnl(p) == RatAdd(p.realized_pnl, GetUnrealizedPnl(p))

RECURSIVE UpdateAllPrices(_, _, _)
\* update_all_prices(prices), symbols being the keys still to do
UpdateAllPrices(positions, prices, symbols) ==
    IF symbols = {} THEN positions
    ELSE LET symbol == CHOOSE x \in symbols : TRUE
         IN  UpdateAllPrices(
                 IF symbol \in DOMAIN positions
                 THEN [positions EXCEPT
                          ![symbol] = PositionUpdatePrice(@, prices[symbol])]
                 ELSE positions,
                 prices, symbols \ {symbol})

\* get_total_value(current_prices): the portfolio after the call and the
\* value returned; an empty or missing map is falsy
TotalValueCall(p, current_prices) ==
    LET after == IF current_prices # EmptyDict
                 THEN [p EXCEPT !.positions =
                          UpdateAllPrices(@, current_prices,
                                          DOMAIN current_prices)]
                 ELSE p
    IN  [portfolio |-> after, value |-> GetTotalValue(after)]

\* (mutant) get_summary passes a quote of 10 for every held symbol
SummaryFreshQuotes(p) == [s \in DOMAIN p.positions |-> 10]

\* get_summary: `self.get_total_value()` is called without prices
SummaryQuotes(p) == EmptyDict

\* get_summary(): the portfolio after the call and what it returns;
\* total_return_pct divides by initial_cash
SummaryCall(p) ==
    LET valued == TotalValueCall(p, SummaryQuotes(p))
        q == valued.portfolio
    IN  [portfolio |-> q,
         value |->
            IF q.initial_cash = 0 THEN [raised |-> "ZeroDivisionError"]
            ELSE [cash |-> q.cash,
                  positions_count |-> Cardinality(DOMAIN q.positions),
                  positions_value |-> GetTotalValue(q) - q.cash,
                  total_value |-> valued.value,
                  realized_pnl |-> q.realized_pnl,
                  unrealized_pnl |-> GetUnrealizedPnl(q),
                  total_pnl |-> GetTotalPnl(q),
                  total_return_pct |->
                      Ratio((valued.value - q.initial_cash) * 100,
                            q.initial_cash),
                  trades_count |-> Len(q.trades_history)]]

\* a call of get_summary()
GetSummary ==
    /\ portfolio' = [SummaryCall(portfolio).portfolio EXCEPT
                        !.read = [call |-> "get_summary",
                                  value |-> SummaryCall(portfolio).value]]
    /\ UNCHANGED <<busVars, busHist, analyst, trader, rm, market, mainPc,
                   hist, probe, redis, lifecycle>>

\* the maps of quotes get_total_value is called with; the empty one stands
\* for a call without prices
PortfolioQuotes ==
    {EmptyDict, [s \in {"AAPL"} |-> 10], [s \in PortfolioSymbols |-> 20]}

\* a call of get_total_value(current_prices)
CallGetTotalValue ==
    \E current_prices \in PortfolioQuotes :
        /\ portfolio' =
              [TotalValueCall(portfolio, current_prices).portfolio EXCEPT
                  !.read = [call |-> "get_total_value",
                            value |-> TotalValueCall(portfolio,
                                                     current_prices).value]]
        /\ UNCHANGED <<busVars, busHist, analyst, trader, rm, market, mainPc,
                       hist, probe, redis, lifecycle>>

InitPortfolioSpec ==
    /\ InitIdleBus
    /\ InitSim
    /\ redis = NoObject
    /\ lifecycle = NoObject
    /\ \E initial_cash \in PortfolioCash :
          portfolio = InitPortfolio(initial_cash)

NextPortfolio == ExecuteTrade \/ UpdatePrice

SpecPortfolio == InitPortfolioSpec /\ [][NextPortfolio]_vars

\* the ledger with its reads
NextPortfolioReads ==
    \/ ExecuteTrade
    \/ UpdatePrice
    \/ GetSummary
    \/ CallGetTotalValue

SpecPortfolioReads == InitPortfolioSpec /\ [][NextPortfolioReads]_vars

-----------------------------------------------------------------------------
(* Properties of LocalMessageBus, checked under SpecBus *)

Queued(n) == \E i \in DOMAIN queue : queue[i].seq = n

\* message n was taken from the queue and its gather has finished
Processed(n) == n \in DOMAIN accepted /\ ~Queued(n) /\ current.seq # n

\* how often registration r was invoked with message n
TimesInvoked(r, n) ==
    LET inv == Invocations(invoked, r)
    IN  Cardinality({i \in DOMAIN inv : inv[i].seq = n})

InPublishOrder(inv) ==
    \A i, j \in DOMAIN inv : i < j => inv[i].seq < inv[j].seq

\* C7: a callback registered on a topic when a message is published on it is
\* invoked exactly once with that message by the time the message's delivery
\* is over, never more than once before that; every registration sees the
\* messages of its topic in the order their publish calls were accepted,
\* messages published by callbacks included; and while the bus is running
\* with its task alive, a waiting message can always be delivered.
C7_ExactlyOnceInOrder ==
    /\ \A n \in DOMAIN accepted : \A reg \in 1..accepted[n].regs :
          LET k == TimesInvoked(<<accepted[n].channel, reg>>, n)
          IN  /\ k <= 1
              /\ Processed(n) => k = 1
    /\ \A r \in DOMAIN invoked : InPublishOrder(invoked[r])
    /\ (running /\ task \in {"get", "gather"} /\ (queue # <<>> \/ task = "gather"))
          => ENABLED (LoopGet \/ RunTestCallback \/ GatherDone)

\* C7 witness: a registration has received two messages of its topic in
\* turn, the second of them published by a callback during delivery
C7_Witness ==
    \E r \in DOMAIN invoked :
        /\ Len(invoked[r]) >= 2
        /\ accepted[invoked[r][2].seq].by = "callback"
        /\ accepted[invoked[r][2].seq].regs >= r[2]

\* C8: when a callback raises on a message, every other callback registered
\* on that topic when the message was published is still invoked with it
\* (or is still to run while the message is being delivered), the delivery
\* task does not die of the error, and messages dequeued afterwards are
\* delivered to all their callbacks.
C8_FailureIsolation ==
    /\ task # "failed"
    /\ \A r \in DOMAIN invoked : \A i \in DOMAIN invoked[r] :
          invoked[r][i].result = "raised" =>
              LET n == invoked[r][i].seq IN
              /\ \A reg \in 1..accepted[n].regs :
                    \/ TimesInvoked(<<r[1], reg>>, n) = 1
                    \/ current.seq = n /\ reg \in Range(todo)
              /\ \A m \in DOMAIN accepted :
                    (m > n /\ Processed(m)) =>
                        \A reg \in 1..accepted[m].regs :
                            TimesInvoked(<<accepted[m].channel, reg>>, m) = 1

\* C8 witness: a callback raised on a message, a callback registered after
\* it on the same topic returned from the same message, and a later message
\* was delivered to the raising callback again
C8_Witness ==
    \E r \in DOMAIN invoked :
        /\ Len(invoked[r]) >= 2
        /\ invoked[r][1].result = "raised"
        /\ \E r2 \in DOMAIN invoked :
              /\ r2[1] = r[1]
              /\ r2[2] > r[2]
              /\ \E i \in DOMAIN invoked[r2] :
                    /\ invoked[r2][i].seq = invoked[r][1].seq
                    /\ invoked[r2][i].result = "returned"

\* C9 (as claimed): once close() has returned on a started bus, every message
\* accepted before close() was called has been delivered to the callbacks
\* registered on its topic.
C9_CloseDrains ==
    (closePc = "returned" /\ task = "done") =>
        \A n \in 1..closedAt : \A reg \in 1..accepted[n].regs :
            TimesInvoked(<<accepted[n].channel, reg>>, n) = 1

C11_NoReplay ==
    \A r \in DOMAIN invoked : \A i \in DOMAIN invoked[r] :
        r[2] <= accepted[invoked[r][i].seq].regs

-----------------------------------------------------------------------------
(* Properties of RedisMessageBus, checked under SpecRedis *)

\* C12 (as claimed): a handler is awaited only with messages of a channel
\* it is subscribed to, and each registration sees its messages at most once
\* each and in the order they were published.
C12_RedisDelivery ==
    \A r \in DOMAIN redis.delivered :
        /\ \A i \in DOMAIN redis.delivered[r] :
              redis.subscribers[r[1]][r[2]]
                \in Range(Subscribers(redis.subscribers,
                                      redis.delivered[r][i].channel))
        /\ InPublishOrder(redis.delivered[r])

\* C30: a message a listener hands to one handler of a channel is handed to
\* every handler subscribed to that channel, whether or not one of them
\* raises.
C30_RedisFailureIsolation ==
    [][\A r \in DOMAIN redis'.delivered :
          Len(Invocations(redis'.delivered, r))
            > Len(Invocations(redis.delivered, r)) =>
              \A i \in DOMAIN redis.subscribers[r[1]] :
                  Len(Invocations(redis'.delivered, <<r[1], i>>))
                    > Len(Invocations(redis.delivered, <<r[1], i>>))]_vars

-----------------------------------------------------------------------------
(* Properties of BaseAgent, checked under SpecAgent *)

\* how often handler is registered on channel
Registrations(registered, channel, handler) ==
    Cardinality({i \in DOMAIN Subscribers(registered, channel) :
                    registered[channel][i] = handler})

Idle(l) == \A c \in Callers : l.pc[c].op = "idle"

\* C13: as long as stop() was not called, the agent never has more than one
\* processing-loop task nor a handler registered twice on its topic, and
\* once every start() call has returned it has exactly one task, alive, and
\* each handler registered exactly once, however the calls interleave.
C13_StartIdempotent ==
    lifecycle.stops = 0 =>
        /\ Len(lifecycle.tasks) <= 1
        /\ \A i \in DOMAIN AgentSubscriptions :
              Registrations(lifecycle.registered, AgentSubscriptions[i][1],
                            AgentSubscriptions[i][2]) <= 1
        /\ (lifecycle.starts >= 1 /\ Idle(lifecycle)) =>
              /\ lifecycle.tasks = <<"pending">>
              /\ \A i \in DOMAIN AgentSubscriptions :
                    Registrations(lifecycle.registered, AgentSubscriptions[i][1],
                                  AgentSubscriptions[i][2]) = 1

\* C13 witness: two start() calls and no stop() have returned
C13_Witness ==
    /\ lifecycle.stops = 0
    /\ lifecycle.starts = 2
    /\ Idle(lifecycle)
    /\ Len(lifecycle.results) = 2

AgentCore(l) == <<l.running, l.tasks, l.registered>>

\* a step of a stop() call: its entry, or its return
StopStep ==
    \/ lifecycle'.stops # lifecycle.stops
    \/ \E c \in Callers :
          lifecycle.pc[c].op = "stop" /\ lifecycle'.pc[c].op = "idle"

C39_RegisteredOnce ==
    \A i \in DOMAIN AgentSubscriptions :
        Registrations(lifecycle.registered, AgentSubscriptions[i][1],
                      AgentSubscriptions[i][2]) <= 1

\* stop() on the agent that shutdown() is at has returned
Stopped(l) == l.stops = 1 /\ Idle(l)

\* C40: every stop() of shutdown() returns, without an error, with the
\* agent's _running false and its task over; close() returns once the
\* delivery loop has seen _running false, with the loop's task over; and
\* shutdown() completes, given that every handler invocation returns.
C40_ShutdownCompletes ==
    /\ <>(mainPc.at = "complete")
    /\ [](Stopped(lifecycle) =>
             /\ ~lifecycle.running
             /\ lifecycle.tasks[Len(lifecycle.tasks)] \in {"cancelled", "finished"}
             /\ lifecycle.results[Len(lifecycle.results)] = "returned")
    /\ [](closePc = "returned" => ~running /\ task = "done")
    /\ [](mainPc.at = "complete" =>
             mainPc.agent = MaxAgents /\ Stopped(lifecycle)
               /\ closePc = "returned")

\* C40 witness: shutdown() is complete; close() was called while the loop
\* was gathering the callbacks of a message, and a message is left queued
C40_Witness ==
    /\ mainPc.at = "complete"
    /\ lifecycle.tasks = <<"cancelled">>
    /\ invoked # EmptyDict
    /\ queue # <<>>

-----------------------------------------------------------------------------
(* Properties of Portfolio, checked under SpecPortfolio *)

PortfolioCore(p) == <<p.cash, p.positions, p.realized_pnl, p.trades_history>>

Held(p, symbol) ==
    IF symbol \in DOMAIN p.positions THEN p.positions[symbol].quantity ELSE 0

\* the trade of the step is one the claim says must fail
MustFail(p, trade) ==
    \/ /\ trade.side = "BUY"
       /\ trade.execution_price * trade.quantity + trade.commission > p.cash
    \/ /\ trade.side = "SELL"
       /\ trade.quantity > Held(p, trade.symbol)

\* C15: an execute_trade call with a BUY that costs more than the cash, or a
\* SELL of more than is held, returns False and leaves cash, positions,
\* realized_pnl and trades_history as they were; every other call returns
\* True and appends exactly its trade to trades_history.
C15_FailureLeavesState ==
    [][portfolio'.calls # portfolio.calls =>
         LET trade == portfolio'.last.trade
         IN  IF MustFail(portfolio, trade)
             THEN /\ ~portfolio'.last.result
                  /\ PortfolioCore(portfolio') = PortfolioCore(portfolio)
             ELSE /\ portfolio'.last.result
                  /\ portfolio'.trades_history
                       = Append(portfolio.trades_history, trade)]_vars

\* C15 witness: after a successful BUY, a BUY beyond the cash was refused
C15_Witness ==
    /\ portfolio.calls = 2
    /\ Len(portfolio.trades_history) = 1
    /\ portfolio.last.trade.side = "BUY"
    /\ ~portfolio.last.result
    /\ portfolio.last.trade.execution_price * portfolio.last.trade.quantity
         + portfolio.last.trade.commission > portfolio.cash

\* C16: the cash of a Portfolio is never negative.
C16_CashNonNegative == portfolio.cash >= 0

\* C19: get_total_value() - initial_cash equals realized_pnl +
\* get_unrealized_pnl().
C19_PnlIdentity ==
    GetTotalPnl(portfolio)
      = [n |-> GetTotalValue(portfolio) - portfolio.initial_cash, d |-> 1]

\* C20: a successful BUY raises the position's quantity by the fill quantity,
\* makes avg_cost * new quantity equal to old avg_cost * old quantity +
\* execution_price * fill quantity (a new position starts at the execution
\* price) and lowers cash by execution_price * quantity + commission.
C20_WeightedAverageCost ==
    [][(/\ portfolio'.calls # portfolio.calls
        /\ portfolio'.last.result
        /\ portfolio'.last.trade.side = "BUY") =>
         LET trade == portfolio'.last.trade
             old == IF trade.symbol \in DOMAIN portfolio.positions
                    THEN portfolio.positions[trade.symbol]
                    ELSE [quantity |-> 0, avg_cost |-> [n |-> 0, d |-> 1]]
             new == portfolio'.positions[trade.symbol]
         IN  /\ new.quantity = old.quantity + trade.quantity
             /\ new.avg_cost.n * new.quantity * old.avg_cost.d
                  = (old.avg_cost.n * old.quantity
                       + trade.execution_price * trade.quantity
                           * old.avg_cost.d) * new.avg_cost.d
             /\ old.quantity = 0 =>
                   new.avg_cost = [n |-> trade.execution_price, d |-> 1]
             /\ portfolio'.cash
                  = portfolio.cash
                      - (trade.execution_price * trade.quantity
                           + trade.commission)]_vars

\* C20 witness: a BUY at another price was added to a held position, so
\* avg_cost lies between the two prices
C20_Witness ==
    /\ portfolio.calls = 2
    /\ portfolio.last.result
    /\ portfolio.last.trade.side = "BUY"
    /\ Len(portfolio.trades_history) = 2
    /\ portfolio.trades_history[1].symbol = portfolio.last.trade.symbol
    /\ portfolio.trades_history[1].side = "BUY"
    /\ portfolio.trades_history[1].execution_price
         # portfolio.last.trade.execution_price
    /\ portfolio.positions[portfolio.last.trade.symbol].avg_cost.d > 1

\* C21: no stored Position has quantity <= 0; a successful SELL raises
\* realized_pnl by (execution_price - avg_cost) * fill quantity, and either
\* the fill takes the whole position, which is then deleted, or the position
\* stays with its quantity lowered by the fill and its avg_cost unchanged.
C21_SellFill ==
    /\ [](\A s \in DOMAIN portfolio.positions :
            portfolio.positions[s].quantity > 0)
    /\ [][(/\ portfolio'.calls # portfolio.calls
           /\ portfolio'.last.result
           /\ portfolio'.last.trade.side = "SELL") =>
            LET trade == portfolio'.last.trade
                old == portfolio.positions[trade.symbol]
                was == portfolio.realized_pnl
                now == portfolio'.realized_pnl
            IN  /\ (now.n * was.d - was.n * now.d) * old.avg_cost.d
                     = (trade.execution_price * old.avg_cost.d - old.avg_cost.n)
                         * trade.quantity * now.d * was.d
                /\ IF old.quantity = trade.quantity
                   THEN trade.symbol \notin DOMAIN portfolio'.positions
                   ELSE /\ trade.symbol \in DOMAIN portfolio'.positions
                        /\ portfolio'.positions[trade.symbol].quantity
                             = old.quantity - trade.quantity
                        /\ portfolio'.positions[trade.symbol].avg_cost
                             = old.avg_cost]_vars

\* C21 witness: a SELL at a price other than avg_cost took the whole of a
\* position built by two BUYs
C21_Witness ==
    /\ portfolio.calls = 3
    /\ Len(portfolio.trades_history) = 3
    /\ portfolio.last.result
    /\ portfolio.last.trade.side = "SELL"
    /\ portfolio.last.trade.quantity = 2
    /\ portfolio.last.trade.symbol \notin DOMAIN portfolio.positions
    /\ portfolio.realized_pnl.n # 0

C23_TotalValueIsPureRead ==
    [][portfolio'.read.call = "get_total_value" =>
         PortfolioCore(portfolio') = PortfolioCore(portfolio)]_vars

-----------------------------------------------------------------------------
(* Properties of the order pipeline, checked under Spec *)

AllowedEdges ==
    {<<"PENDING", "APPROVED">>, <<"PENDING", "REJECTED">>,
     <<"APPROVED", "EXECUTED">>, <<"APPROVED", "CANCELLED">>}

\* the edges an order took: the consecutive statuses written to it
Edges(written) == [i \in 1..(Len(written) - 1) |-> <<written[i], written[i + 1]>>]

\* C1 (as claimed): the statuses written to an order start with PENDING,
\* every write follows the one before along PENDING->APPROVED,
\* PENDING->REJECTED, APPROVED->EXECUTED or APPROVED->CANCELLED, and no edge
\* is taken twice, also when two risk managers decide on the order.
C1_StatusEdges ==
    \A o \in DOMAIN hist.status :
        LET edges == Edges(hist.status[o])
        IN  /\ hist.status[o][1] = "PENDING"
            /\ \A i \in DOMAIN edges : edges[i] \in AllowedEdges
            /\ \A i, j \in DOMAIN edges : i # j => edges[i] # edges[j]

\* C2 (as claimed): no two Trades carry the same order_id.
C2_OneTradePerOrder ==
    \A i, j \in DOMAIN market.executed_trades :
        i # j => market.executed_trades[i].order_id
                   # market.executed_trades[j].order_id

\* the orders a risk manager has published a rejecting decision for
RejectedByRisk ==
    {d.order_id : d \in {x \in UNION {Range(hist.decisions[r]) : r \in RiskManagers} :
                            ~x.approved}}

\* a risk_decision for order o is queued or being delivered
DecisionInFlight(o) ==
    \/ \E i \in DOMAIN queue :
          /\ queue[i].data.type = "risk_decision"
          /\ queue[i].data.order_id = o
    \/ /\ current.data.type = "risk_decision"
       /\ current.data.order_id = o

Last(s) == s[Len(s)]

\* C3: for an order a risk manager rejected, the trader publishes no
\* order_approved message, MarketEnvironment never queues it and no Trade is
\* created for it; once the rejecting decisions are delivered the order has
\* gone from PENDING to REJECTED and from the trader's list, and a status of
\* REJECTED, once written, stays the last one written.
C3_RejectedNeverTrades ==
    /\ \A o \in RejectedByRisk :
          /\ o \notin Range(hist.approvals)
          /\ \A i \in DOMAIN queue :
                queue[i].data.type = "order_approved" => queue[i].data.order_id # o
          /\ \A i \in DOMAIN market.pending_orders :
                market.pending_orders[i].id # o
          /\ \A i \in DOMAIN market.executed_trades :
                market.executed_trades[i].order_id # o
          /\ ~DecisionInFlight(o) =>
                /\ hist.status[o] = <<"PENDING", "REJECTED">>
                /\ \A t \in Traders : FirstWithId(trader[t].pending_orders, o) = 0
    /\ \A o \in DOMAIN hist.status :
          "REJECTED" \in Range(hist.status[o]) => Last(hist.status[o]) = "REJECTED"

\* C3 witness: both rejecting decisions for an order were delivered, the
\* simulation went on to its last execution sweep, and the order is REJECTED
C3_Witness ==
    /\ mainPc.at = "finished"
    /\ queue = <<>>
    /\ task = "get"
    /\ \E o \in RejectedByRisk :
          /\ o \in hist.rejections
          /\ Last(hist.status[o]) = "REJECTED"

\* C4 (as claimed): an order leaves a trader's pending_orders at most once,
\* with status REJECTED when a rejecting decision removes it and with status
\* EXECUTED when its fill removes it.
C4_RemovedOnceTerminal ==
    /\ \A i, j \in DOMAIN hist.removed :
          i # j => hist.removed[i].order_id # hist.removed[j].order_id
    /\ \A i \in DOMAIN hist.removed :
          /\ hist.removed[i].by = "risk_decision" =>
                hist.removed[i].status = "REJECTED"
          /\ hist.removed[i].by = "trade_executed" =>
                hist.removed[i].status = "EXECUTED"

\* C6: every order_request delivered to a risk manager has been answered,
\* by the end of its handler, with one risk_decision of that order_id that
\* carries the outcome of _validate_order; a failed validation is published
\* with approved = false and a non-empty reason.
C6_DecisionPublished ==
    \A r \in RiskManagers :
        /\ Len(hist.decisions[r]) = Len(hist.requests[r])
        /\ \A i \in DOMAIN hist.requests[r] :
              /\ hist.decisions[r][i].type = "risk_decision"
              /\ hist.decisions[r][i].order_id = hist.requests[r][i]
              /\ hist.decisions[r][i].approved = hist.validated[r][i][1]
              /\ ~hist.validated[r][i][1] =>
                    /\ hist.decisions[r][i].approved = FALSE
                    /\ hist.decisions[r][i].reason # ""

\* C6 witness: a risk manager has answered a request whose validation failed
C6_Witness ==
    \E r \in RiskManagers : \E i \in DOMAIN hist.requests[r] :
        /\ ~hist.validated[r][i][1]
        /\ i \in DOMAIN hist.decisions[r]
        /\ ~hist.decisions[r][i].approved

\* nothing is queued and no handler runs
Quiescent == queue = <<>> /\ task = "get" /\ todo = <<>>

\* C27: at quiescence every risk manager's shadow cash of a trader that has
\* traded is that trader's cash, and its shadow quantity of every trader and
\* symbol is the trader's position.
C27_ShadowMatchesTrader ==
    Quiescent =>
        \A r \in RiskManagers, t \in Traders :
            /\ t \in DOMAIN rm[r].trader_cash =>
                  rm[r].trader_cash[t] = trader[t].cash
            /\ \A s \in Symbols :
                  ShadowQuantity(rm[r], t, s) = Get(trader[t].positions, s, 0)

\* the handler of trader t for "trades" is handed the fill of an order that t
\* holds pending
FillDelivered(t) ==
    /\ task = "gather"
    /\ todo # <<>>
    /\ channels[current.channel][Head(todo)] = <<t, "_on_trade_executed">>
    /\ current.data.type = "trade_executed"
    /\ FirstWithId(trader[t].pending_orders, current.data.order_id) # 0
    /\ todo' = Tail(todo)

\* the first Trade the market created for an order
FirstFill(order_id) ==
    market.executed_trades[
        CHOOSE i \in DOMAIN market.executed_trades :
            /\ market.executed_trades[i].order_id = order_id
            /\ \A j \in 1..(i - 1) :
                  market.executed_trades[j].order_id # order_id]

\* the orders of trader t that left pending_orders through a fill
FilledOrders(t) ==
    {hist.removed[i].order_id : i \in
        {k \in DOMAIN hist.removed :
            /\ hist.removed[k].by = "trade_executed"
            /\ \E n \in DOMAIN market.executed_trades :
                  /\ market.executed_trades[n].order_id = hist.removed[k].order_id
                  /\ market.executed_trades[n].trader_id = t}}

CashFlow(trade) ==
    IF trade.side = "BUY"
    THEN 0 - (trade.execution_price * trade.quantity + trade.commission)
    ELSE trade.execution_price * trade.quantity - trade.commission

ShareFlow(trade, symbol) ==
    IF trade.symbol # symbol THEN 0
    ELSE IF trade.side = "BUY" THEN trade.quantity ELSE 0 - trade.quantity

\* C28: the handler of a trader that is handed the fill of one of its pending
\* orders moves cash by execution_price*quantity + commission down (BUY) or
\* execution_price*quantity - commission up (SELL), moves the position by the
\* quantity, and takes the order off pending_orders; end to end, the cash and
\* the positions of a trader are its initial cash and no shares plus exactly
\* these changes, one per filled order.
C28_FillLedger ==
    /\ [](\A t \in Traders :
            /\ trader[t].cash =
                  InitialPortfolioValue \div 4
                    + SumOver([o \in FilledOrders(t) |-> CashFlow(FirstFill(o))],
                              FilledOrders(t), 0)
            /\ \A s \in Symbols :
                  Get(trader[t].positions, s, 0) =
                      SumOver([o \in FilledOrders(t) |->
                                  ShareFlow(FirstFill(o), s)],
                              FilledOrders(t), 0))
    /\ [][\A t \in Traders :
              FillDelivered(t) =>
                  LET m == current.data
                      before == Get(trader[t].positions, m.symbol, 0)
                      after == Get(trader'[t].positions, m.symbol, 0)
                  IN  /\ m.side = "BUY" =>
                            /\ trader'[t].cash = trader[t].cash
                                  - (m.execution_price * m.quantity + m.commission)
                            /\ after = before + m.quantity
                      /\ m.side = "SELL" =>
                            /\ trader'[t].cash = trader[t].cash
                                  + (m.execution_price * m.quantity - m.commission)
                            /\ after = before - m.quantity
                      /\ FirstWithId(trader'[t].pending_orders, m.order_id) = 0
                      /\ Len(trader'[t].pending_orders)
                            = Len(trader[t].pending_orders) - 1]_vars

\* C28 witness: a BUY placed on a signal was approved and filled, the bus has
\* drained, and the trader holds the shares it paid for with a commission
C28_Witness ==
    /\ Quiescent
    /\ \E t \in Traders :
          /\ FilledOrders(t) # {}
          /\ \E o \in FilledOrders(t) :
                /\ FirstFill(o).side = "BUY"
                /\ FirstFill(o).commission > 0
                /\ Get(trader[t].positions, FirstFill(o).symbol, 0) > 0
          /\ trader[t].cash < InitialPortfolioValue \div 4

\* the handler of trader t for "trades" is handed a fill of an order that t
\* does not hold pending
ForeignFillDelivered(t) ==
    /\ task = "gather"
    /\ todo # <<>>
    /\ channels[current.channel][Head(todo)] = <<t, "_on_trade_executed">>
    /\ current.data.type = "trade_executed"
    /\ FirstWithId(trader[t].pending_orders, current.data.order_id) = 0
    /\ todo' = Tail(todo)

\* C31: a trade_executed message for an order that the trader does not hold
\* pending leaves the trader's cash, positions and pending_orders unchanged,
\* and the cash and the positions of a trader change only in the step that
\* hands it the fill of one of its pending orders.
C31_OnlyOwnFills ==
    [][\A t \in Traders :
          /\ ForeignFillDelivered(t) =>
                /\ trader'[t].cash = trader[t].cash
                /\ trader'[t].positions = trader[t].positions
                /\ trader'[t].pending_orders = trader[t].pending_orders
          /\ (\/ trader'[t].cash # trader[t].cash
              \/ trader'[t].positions # trader[t].positions) =>
                FillDelivered(t)]_vars

\* C31 witness: a trader that has settled an order was handed the second
\* Trade of that order and the fill of another trader's order
C31_Witness ==
    \E t \in Traders :
        /\ FilledOrders(t) # {}
        /\ \E i, j \in DOMAIN market.executed_trades :
              /\ i < j
              /\ market.executed_trades[i].order_id
                    = market.executed_trades[j].order_id
              /\ market.executed_trades[i].trader_id = t
        /\ Quiescent

\* C36 (as claimed): a trader publishes at most one order_approved per order
\* id, however many risk_decision messages arrive for it, and the market's
\* pending_orders never holds two entries with the same order id.
C36_OneApprovalPerOrder ==
    /\ \A i, j \in DOMAIN hist.approvals :
          i # j => hist.approvals[i] # hist.approvals[j]
    /\ \A i, j \in DOMAIN market.pending_orders :
          i # j => market.pending_orders[i].id # market.pending_orders[j].id

\* C37 (as claimed): while the prices stay what they were at validation, the
\* total shadow exposure of a risk manager never exceeds
\* initial_portfolio_value * max_portfolio_risk, and the shadow cash of no
\* trader is below zero, also when several orders are approved before any of
\* them is filled.
C37_ShadowWithinLimits ==
    \A r \in RiskManagers :
        /\ TotalExposure(rm[r]) <= MaxAllowedExposure(rm[r])
        /\ \A t \in DOMAIN rm[r].trader_cash : rm[r].trader_cash[t] >= 0

\* C17: the cash of every trader is >= 0, in particular after each fill it
\* applies.
C17_TraderCashNonNegative == \A t \in Traders : trader[t].cash >= 0

\* C18: no position quantity of a trader and no shadow position quantity of a
\* risk manager is negative.
C18_QuantitiesNonNegative ==
    /\ \A t \in Traders : \A s \in DOMAIN trader[t].positions :
          trader[t].positions[s] >= 0
    /\ \A r \in RiskManagers : \A k \in DOMAIN rm[r].current_positions :
          rm[r].current_positions[k].quantity >= 0

-----------------------------------------------------------------------------
(* Properties of the risk managers in the pipeline, checked under SpecWatch *)

\* the callback `method` of agent a is run on the current message
Handling(a, method) ==
    /\ task = "gather"
    /\ todo # <<>>
    /\ channels[current.channel][Head(todo)] = <<a, method>>
    /\ todo' = Tail(todo)

\* the messages this step put on the queue
Sent ==
    IF queue # <<>> /\ queue' = Tail(queue) THEN <<>>
    ELSE SubSeq(queue', Len(queue) + 1, Len(queue'))

\* a step that is a pass of _check_stop_losses with something to report
AlertStep == \E i \in DOMAIN Sent : Sent[i].channel = "stop_loss_alerts"

\* C32: _on_order_request with _validate_order and _check_stop_losses leave
\* current_positions, trader_cash and current_prices of every risk manager
\* unchanged; a stop-loss pass publishes stop_loss messages on
\* stop_loss_alerts and nothing else, and no risk manager ever publishes an
\* order_request; shadow positions and cash change only in
\* _on_trade_executed and shadow prices only in _on_market_update.
C32_ShadowFrame ==
    [][/\ \A r \in RiskManagers :
             /\ Handling(r, "_on_order_request") =>
                   /\ \A q \in RiskManagers :
                         /\ rm'[q].current_positions = rm[q].current_positions
                         /\ rm'[q].trader_cash = rm[q].trader_cash
                         /\ rm'[q].current_prices = rm[q].current_prices
                   /\ \A i \in DOMAIN Sent : Sent[i].channel = "risk_decisions"
             /\ (\/ rm'[r].current_positions # rm[r].current_positions
                 \/ rm'[r].trader_cash # rm[r].trader_cash) =>
                   /\ Handling(r, "_on_trade_executed")
                   /\ current.data.type = "trade_executed"
             /\ rm'[r].current_prices # rm[r].current_prices =>
                   /\ Handling(r, "_on_market_update")
                   /\ current.data.type = "market_update"
       /\ AlertStep =>
             /\ rm' = rm
             /\ \A i \in DOMAIN Sent :
                   /\ Sent[i].channel = "stop_loss_alerts"
                   /\ Sent[i].data.type = "stop_loss"
       /\ \A i \in DOMAIN Sent :
             (Sent[i].channel = "orders" \/ Sent[i].data.type = "order_request") =>
                 \E t \in Traders : Handling(t, "_on_signal")]_vars

\* C32 witness: a risk manager has approved an order, has booked a fill, and
\* its stop-loss pass has published an alert that is still queued
C32_Witness ==
    \E r \in RiskManagers :
        /\ rm[r].approved_count > 0
        /\ rm[r].trader_cash # EmptyDict
        /\ \E i \in DOMAIN queue :
              /\ queue[i].channel = "stop_loss_alerts"
              /\ queue[i].data.trader_id \in DOMAIN rm[r].trader_cash

-----------------------------------------------------------------------------
(* Properties of TraderAgent._on_signal, checked under SpecSignals *)

\* the order_request messages this step published
Requests ==
    LET IsRequest(e) == e.data.type = "order_request"
    IN  SelectSeq(Sent, IsRequest)

\* C34: every order_request is published by the _on_signal handler of the
\* trader it names, with an integer quantity of at least 1 and an order id
\* no trader has used before; the signal has a confidence above 0.65 and a
\* symbol of the trader's list whose price the trader knows; the quantity
\* of a BUY times that price is at most a tenth of the trader's cash and
\* the quantity of a SELL at most the quantity the trader holds.
C34_OrderPlacement ==
    [][/\ Len(Requests) <= 1
       /\ \A i \in DOMAIN Requests :
             LET o == Requests[i].data
                 t == o.trader_id
                 s == trader[t]
                 sig == current.data
             IN  /\ t \in Traders
                 /\ Handling(t, "_on_signal")
                 /\ Requests[i].channel = "orders"
                 /\ o.quantity \in Nat
                 /\ o.quantity >= 1
                 /\ o.order_id \notin DOMAIN hist.status
                 /\ \A u \in Traders : \A n \in DOMAIN trader[u].pending_orders :
                       trader[u].pending_orders[n].id # o.order_id
                 /\ sig.type = "signal"
                 /\ sig.confidence > 65
                 /\ o.symbol = sig.symbol
                 /\ o.symbol \in s.symbols
                 /\ o.symbol \in DOMAIN s.current_prices
                 /\ o.side \in {"BUY", "SELL"}
                 /\ o.side = "BUY" =>
                       /\ sig.signal_type = "BULLISH"
                       /\ 10 * o.quantity * s.current_prices[o.symbol] <= s.cash
                 /\ o.side = "SELL" =>
                       /\ sig.signal_type = "BEARISH"
                       /\ o.quantity <= Get(s.positions, o.symbol, 0)]_vars

\* C34 witness: a trader that bought on a signal and was filled has placed a
\* SELL of half its shares on a later BEARISH signal
C34_Witness ==
    \E t \in Traders :
        /\ trader[t].order_count = 2
        /\ \E n \in DOMAIN trader[t].pending_orders :
              LET o == trader[t].pending_orders[n]
              IN  /\ o.side = "SELL"
                  /\ o.id = <<t, 2>>
                  /\ 2 * o.quantity = Get(trader[t].positions, o.symbol, 0)

-----------------------------------------------------------------------------
(* Properties of MarketEnvironment, checked under SpecMarketRun *)

\* the records of session `day`
SessionRows(day) == CHOOSE rows \in MarketTimeline[day] : TRUE

\* C25 (as claimed): every Trade has the close of its symbol in the session
\* its sweep followed as execution_price, so its symbol has a record in that
\* session and no Trade carries the price of an earlier session.
C25_SweepUsesSessionClose ==
    \A i \in DOMAIN market.executed_trades :
        LET trade == market.executed_trades[i]
            rows == SessionRows(trade.timestamp)
        IN  /\ trade.symbol \in DOMAIN rows
            /\ trade.execution_price = rows[trade.symbol].close

\* a step of the run loop that makes an execute_pending_orders() sweep
SweepStep == mainPc.at = "sleep" /\ mainPc' # mainPc

\* the Trades created in this step for an order
NewTrades(order) ==
    {i \in (Len(market.executed_trades) + 1)..Len(market'.executed_trades) :
        market'.executed_trades[i].order_id = order.id}

\* the order is held back in a sweep at these prices
Gated(prices, order) ==
    \/ order.symbol \notin DOMAIN prices
    \/ order.side = "BUY" /\ prices[order.symbol] > order.price
    \/ order.side = "SELL" /\ prices[order.symbol] < order.price

\* C26: a sweep does not execute a pending order whose symbol has no current
\* price or whose limit the current price misses (above it for BUY, below it
\* for SELL): the order stays in pending_orders with every field unchanged;
\* every other pending order is executed by the sweep at the current price,
\* so a held order is executed by the first later sweep whose price meets
\* the limit; and no order leaves pending_orders without a Trade.
C26_LimitGate ==
    [][/\ SweepStep =>
             \A i \in DOMAIN market.pending_orders :
                 LET order == market.pending_orders[i]
                 IN  IF Gated(market.current_prices, order)
                     THEN /\ order \in Range(market'.pending_orders)
                          /\ NewTrades(order) = {}
                     ELSE /\ order \notin Range(market'.pending_orders)
                          /\ Cardinality(NewTrades(order)) = 1
                          /\ \A n \in NewTrades(order) :
                                market'.executed_trades[n].execution_price
                                    = market.current_prices[order.symbol]
       /\ \A order \in Range(market.pending_orders) :
             \/ order \in Range(market'.pending_orders)
             \/ SweepStep /\ NewTrades(order) # {}
       /\ \A order \in Range(market'.pending_orders) :
             order.status = "APPROVED"]_vars

\* C26 witness: the first order, a BUY of AAPL, was still pending in the
\* sweep of a session that executed the second order, AAPL then at 11000,
\* and was executed by the sweep of the third session at 10000
C26_Witness ==
    \E i, j \in DOMAIN market.executed_trades :
        /\ market.executed_trades[i].order_id = <<"order", 1>>
        /\ market.executed_trades[i].symbol = "AAPL"
        /\ market.executed_trades[i].side = "BUY"
        /\ market.executed_trades[i].timestamp = 3
        /\ market.executed_trades[i].execution_price = 10000
        /\ market.executed_trades[j].order_id = <<"order", 2>>
        /\ market.executed_trades[j].timestamp = 2

\* the ids of the trade_executed messages a step puts on the queue
Broadcast ==
    LET IsTrade(e) == e.data.type = "trade_executed"
        sent == SelectSeq(Sent, IsTrade)
    IN  [i \in DOMAIN sent |-> sent[i].data.order_id]

\* the ids of the pending orders a step removes, in queue order
Removed ==
    LET Gone(o) == o \notin Range(market'.pending_orders)
        gone == SelectSeq(market.pending_orders, Gone)
    IN  [i \in DOMAIN gone |-> gone[i].id]

\* the Trades an order id has
TradesOf(id) ==
    {n \in DOMAIN market.executed_trades :
        market.executed_trades[n].order_id = id}

\* C38: submit_order queues an order only if its status is APPROVED and
\* otherwise leaves pending_orders as it was; the number of orders accepted
\* equals len(pending_orders) + len(executed_trades); every accepted order
\* is pending and has no Trade, or is not pending and has exactly one; and a
\* step broadcasts a trade_executed for exactly the orders it removes from
\* pending_orders.
C38_OrdersConserved ==
    /\ [](/\ Len(probe.accepted)
               = Len(market.pending_orders) + Len(market.executed_trades)
           /\ \A order \in Range(market.pending_orders) :
                 order.status = "APPROVED" /\ order.id \in Range(probe.accepted)
           /\ \A i \in DOMAIN probe.accepted :
                 LET id == probe.accepted[i]
                     waiting == {n \in DOMAIN market.pending_orders :
                                    market.pending_orders[n].id = id}
                 IN  Cardinality(waiting) + Cardinality(TradesOf(id)) = 1)
    /\ [][/\ Broadcast = Removed
           /\ (probe'.calls # probe.calls
                 /\ Len(probe'.accepted) = Len(probe.accepted))
                 => market'.pending_orders = market.pending_orders]_vars

\* C38 witness: a PENDING order was turned away, an APPROVED order was
\* executed and another APPROVED order is still pending after a sweep
C38_Witness ==
    /\ probe.calls = 3
    /\ Len(probe.accepted) = 2
    /\ Len(market.executed_trades) = 1
    /\ Len(market.pending_orders) = 1
    /\ mainPc.at = "finished"

-----------------------------------------------------------------------------
(* Properties of advance_time, checked under SpecAdvance *)

\* the price table after the last write of the session being advanced
FullyUpdated ==
    [s \in DOMAIN mainPc.before \cup DOMAIN mainPc.rows |->
        IF s \in DOMAIN mainPc.rows THEN mainPc.rows[s].close
        ELSE mainPc.before[s]]

\* a step that reads MarketEnvironment.current_prices: it creates a Trade
\* or publishes the portfolio_update that follows get_all_current_prices()
ReadsPrices ==
    \/ Len(market'.executed_trades) > Len(market.executed_trades)
    \/ \E i \in DOMAIN Sent : Sent[i].channel = "portfolio_update"

\* C33: every step that reads current_prices finds the table as it was
\* before the first write of the session or as it is after the last one,
\* never between two writes of one advance_time call; and the Trades of the
\* step carry prices of the table after the last write.
C33_NoPartialRead ==
    [][ReadsPrices =>
          /\ mainPc.at # "advance"
          /\ market.current_prices \in {mainPc.before, FullyUpdated}
          /\ \A i \in (Len(market.executed_trades) + 1)
                         ..Len(market'.executed_trades) :
                market'.executed_trades[i].execution_price
                    = FullyUpdated[market'.executed_trades[i].symbol]]_vars

\* C33 witness: the second session is being advanced, AAPL written and MSFT
\* not yet, so the table is neither the old nor the new one, while an
\* approved order waits in pending_orders and Trades of the first sweep exist
C33_Witness ==
    /\ mainPc.at = "advance"
    /\ mainPc.day = 2
    /\ market.current_prices \notin {mainPc.before, FullyUpdated}
    /\ market.executed_trades # <<>>
    /\ market.pending_orders # <<>>

-----------------------------------------------------------------------------
(* Properties of the trade handlers on malformed payloads, checked under
   SpecMalformed *)

\* C35 (as claimed): a handler that fails on a payload with a missing field
\* leaves the cash, positions and pending list of every trader and the
\* shadow positions and cash of every risk manager as they were.
C35_MalformedDropped ==
    [][(probe'.n # probe.n /\ probe'.raised) =>
          /\ \A t \in Traders :
                /\ trader'[t].cash = trader[t].cash
                /\ trader'[t].positions = trader[t].positions
                /\ trader'[t].pending_orders = trader[t].pending_orders
          /\ \A r \in RiskManagers :
                /\ rm'[r].current_positions = rm[r].current_positions
                /\ rm'[r].trader_cash = rm[r].trader_cash]_vars

-----------------------------------------------------------------------------
(* Properties of _check_stop_losses, checked under SpecStopLoss *)

\* a step that is one pass of _check_stop_losses
StopLossPass ==
    /\ probe'.pass # NoPass
    /\ probe' # probe \/ queue' # queue

\* what the pass of this step published
Published == SubSeq(queue', Len(queue) + 1, Len(queue'))

\* C24: one pass of _check_stop_losses publishes, for each shadow position
\* with quantity > 0, a known current price and
\* (avg_cost - current_price) / avg_cost > stop_loss_percent, exactly one
\* stop_loss alert that carries the position's trader_id, symbol, quantity,
\* avg_cost, current_price and loss_percent, and publishes nothing else.
C24_OneAlertPerPosition ==
    [][StopLossPass =>
          LET s == rm[probe'.pass.agent]
              Of(k) == {i \in DOMAIN Published :
                           /\ Published[i].data.trader_id = k[1]
                           /\ Published[i].data.symbol = k[2]}
          IN  /\ rm' = rm
              /\ \A i \in DOMAIN Published :
                    /\ Published[i].channel = "stop_loss_alerts"
                    /\ Published[i].data.type = "stop_loss"
                    /\ <<Published[i].data.trader_id, Published[i].data.symbol>>
                          \in DOMAIN s.current_positions
              /\ \A k \in DOMAIN s.current_positions :
                    LET position == s.current_positions[k]
                        n == position.avg_cost.n
                        d == position.avg_cost.d
                    IN  IF /\ position.quantity > 0
                           /\ position.symbol \in DOMAIN s.current_prices
                           /\ (n - s.current_prices[position.symbol] * d) * 100
                                 > StopLossPercent * n
                        THEN /\ Cardinality(Of(k)) = 1
                             /\ \A i \in Of(k) :
                                   LET alert == Published[i].data
                                       price == s.current_prices[position.symbol]
                                   IN  /\ alert.quantity = position.quantity
                                       /\ alert.avg_cost = position.avg_cost
                                       /\ alert.current_price = price
                                       \* loss_percent = (avg_cost - price) / avg_cost
                                       /\ alert.loss_percent.n * n
                                             = (n - price * d) * alert.loss_percent.d
                        ELSE Of(k) = {}]_vars

\* C24 witness: a pass found a position bought at 10000 and quoted at 9000
\* and published one alert with loss_percent 1/10, while a second position,
\* quoted at the threshold or not quoted at all, got none
C24_Witness ==
    /\ probe.pass # NoPass
    /\ probe.pass.published = 1
    /\ Len(queue) = 1
    /\ Cardinality(DOMAIN rm[StopLossAgent].current_positions) = 2
    /\ queue[1].data.avg_cost = [n |-> 10000, d |-> 1]
    /\ queue[1].data.current_price = 9000
    /\ queue[1].data.loss_percent = [n |-> 1, d |-> 10]

-----------------------------------------------------------------------------
(* Properties of _validate_order, checked under SpecValidate *)

\* the five checks in the order claimed: whether each fails for the order
ChecksFailing(s, trader_id, symbol, side, quantity) ==
    LET value == quantity * Get(s.current_prices, symbol, 0)
    IN  <<symbol \notin DOMAIN s.current_prices,
          value > MaxPositionSize,
          side = "BUY" /\ value > ShadowCash(s, trader_id),
          side = "SELL" /\ quantity > ShadowQuantity(s, trader_id, symbol),
          side = "BUY" /\ TotalExposure(s) + value > MaxAllowedExposure(s)>>

CheckReasons ==
    <<"No market data available for symbol",
      "Order value exceeds max position size",
      "Insufficient cash", "Insufficient shares",
      "Portfolio risk limit exceeded">>

\* C5: _validate_order returns the rejection of the first check that fails,
\* in the order no price, order value over max_position_size, BUY over the
\* shadow cash, SELL over the shadow quantity, BUY over the exposure cap; it
\* approves with "Order approved" exactly when none fails; a SELL is never
\* rejected for the exposure cap.
C5_FirstFailingCheck ==
    probe.out # <<>> =>
        LET fails == ChecksFailing(rm["risk_manager_1"], probe.trader_id,
                                   probe.symbol, probe.side, probe.quantity)
            failing == {i \in DOMAIN fails : fails[i]}
        IN  /\ (failing = {}) <=> (probe.out[1] = <<TRUE, "Order approved">>)
            /\ failing # {} =>
                  probe.out[1] = <<FALSE, CheckReasons[
                      CHOOSE i \in failing : \A j \in failing : i <= j]>>
            /\ probe.side = "SELL" => probe.out[1][2] # CheckReasons[5]

\* C5 witness: a BUY that fails both the cash check and the exposure check
\* was rejected for its cash
C5_Witness ==
    /\ probe.out # <<>>
    /\ probe.side = "BUY"
    /\ LET fails == ChecksFailing(rm["risk_manager_1"], probe.trader_id,
                                  probe.symbol, probe.side, probe.quantity)
       IN  ~fails[1] /\ ~fails[2] /\ fails[3] /\ fails[5]
    /\ probe.out[1] = <<FALSE, "Insufficient cash">>

====
